---- MODULE Spec2Model ----
(***************************************************************************)
(* YumeRamenAPI: the order, dish, user and auth services with their v1     *)
(* controllers, over a MySQL/InnoDB database reached through a pool.       *)
(*                                                                         *)
(* The database is modelled by its committed tables; a transaction's       *)
(* uncommitted rows live in the locals of the request that owns it and     *)
(* reach the tables at COMMIT.  InnoDB row locks are the guards named      *)
(* ...Locked: a statement that would wait for a lock is not enabled.       *)
(* Every await of the source is a point where another request may run:     *)
(* each action below is one database statement together with the           *)
(* statement-free code around it.                                          *)
(*                                                                         *)
(* Left out: the columns no handler modelled here reads (last_name,        *)
(* address, phone_number, delivery_address, Ordered_at, created_at,        *)
(* updated_at, expires_at, dish Name, Price and Ingredients), the login    *)
(* rate limiter, the websocket notifications, and a failure of rollback()  *)
(* or release() themselves.                                                *)
(***************************************************************************)
EXTENDS Integers, Sequences, FiniteSets, TLC

(* ------------------------------ bounds -------------------------------- *)

\* the clock runs 0..MaxClock (seconds, scaled)
MaxClock == 2
\* orders.OrderID AUTO_INCREMENT values handed out in one run
MaxOrders == 2
\* users.userID AUTO_INCREMENT values handed out on top of the seeded rows
MaxNewUsers == 2
\* length of the items array of a POST /orders body
MaxItems == 2
\* dish ids a request may name: 1..MaxDishId (the catalog is seeded with 1, 2)
MaxDishId == 3

\* the concurrent requests in flight
Procs == {"r1", "r2"}

(* --------------------------- values and NULL --------------------------- *)

NULL == [null |-> TRUE]
Val(v) == [null |-> FALSE, v |-> v]
\* an optional property of a request body is Undef or Val(v)
Undef == [undef |-> TRUE]

\* a JavaScript number: NaN or an integer
NaN == [nan |-> TRUE, n |-> 0]
Num(n) == [nan |-> FALSE, n |-> n]

\* parseInt over the quantity inputs: a numeric input gives its integer,
\* a non-numeric string gives NaN
ParseInt(x) == IF x.t = "num" THEN Num(x.v) ELSE NaN

isValidQuantity(quantity) ==
  LET q == ParseInt(quantity) IN (~q.nan) /\ q.n > 0

\* the quantity values a request body may carry
QtyInputs == {[t |-> "num", v |-> 0], [t |-> "num", v |-> 2], [t |-> "str", v |-> 0]}

\* parseInt(item.quantity) || 1
CoerceQuantity(quantity) ==
  LET q == ParseInt(quantity) IN IF q.nan \/ q.n = 0 THEN 1 ELSE q.n

(* ------------------------------ messages ------------------------------ *)

Msg(text, ids) == [text |-> text, ids |-> ids]
NoMsg == Msg("", <<>>)

\* String.prototype.includes over the messages the services and the
\* database raise and the needles the controllers look for
SubstringPairs ==
  { <<"User ID is required", "required">>,
    <<"Order must contain at least one item", "must contain">>,
    <<"Invalid quantity for dishID ", "Invalid">>,
    <<"Dishes not found: ", "not found">>,
    <<"No fields provided for update", "No fields">>,
    <<"Cannot delete user with active orders. Please complete or delete active orders first.", "Cannot delete">>,
    <<"Email and password are required", "required">>,
    <<"Invalid email format", "Invalid">>,
    <<"Invalid email or password", "Invalid">>,
    <<"Invalid email or password", "Invalid email or password">>,
    <<"Refresh Token Required", "Required">>,
    <<"Invalid Refresh Token", "Invalid">>,
    <<"Refresh Token Not Found (Revoked)", "Revoked">>,
    <<"Username, password, and email are required", "required">>,
    <<"Email already exists", "exists">>,
    <<"Access denied: Only admins can change roles", "Access denied">>,
    <<"Access denied: You cannot change your own role", "Access denied">>,
    <<"Name, Price and Ingredients are required", "required">>,
    <<"Invalid price format", "Invalid">>,
    <<"Invalid price format", "Invalid price">> }

Includes(text, needle) == <<text, needle>> \in SubstringPairs

\* errors of the database driver
ErFk == Msg("Cannot add or update a child row: a foreign key constraint fails", <<>>)
ErDup == Msg("Duplicate entry for key", <<>>)
ErIo == Msg("Connection lost: The server closed the connection.", <<>>)

(* ------------------------------ responses ----------------------------- *)

\* status: HTTP status; error: the "error" member of the body; thrown: the
\* message of the exception the service raised (NoMsg when it returned);
\* id: orderId / userId of a success body; cookies: the cookies set
Resp(status, error, thrown, id, cookies) ==
  [status |-> status, error |-> error, thrown |-> thrown, id |-> id, cookies |-> cookies]
\* no response (a middleware that calls next(), a handler still running)
NoResp == Resp(0, NoMsg, NoMsg, 0, {})
Ok(status, id) == Resp(status, NoMsg, NoMsg, id, {})
Fail(status, msg) == Resp(status, msg, msg, 0, {})
\* a middleware answered before any service ran
Denied(status, text) == Resp(status, Msg(text, <<>>), NoMsg, 0, {})

VARIABLES
  users,           \* table users: userID -> row
  nextUserId,      \* AUTO_INCREMENT of users
  dishes,          \* table dishes: DishID -> row
  nextDishId,      \* AUTO_INCREMENT of dishes
  files,           \* image files on disk
  orders,          \* table orders: OrderID -> row
  nextOrderId,     \* AUTO_INCREMENT of orders
  order_items,     \* table order_items: set of rows
  refresh_tokens,  \* table refresh_tokens: set of rows
  issued,          \* every token jwt.sign has produced (held by clients)
  clock,           \* Date.now() in (scaled) seconds
  production,      \* process.env.NODE_ENV === "production"
  leaked,          \* pooled connections checked out that no handler holds
  pc,              \* per request: where its handler stands
  call,            \* per request: arguments and locals of the handler
  conn,            \* per request: holds a pooled connection
  txOpen,          \* per request: its connection has a transaction open
  resp,            \* the response this step sent: [op, req, r], op the route
                   \* answered and req the request it answers
  past             \* history: the rows logout has deleted and the emails
                   \* createUser has refused

vars == <<users, nextUserId, dishes, nextDishId, files, orders, nextOrderId, order_items,
          refresh_tokens, issued, clock, production, leaked, pc, call, conn, txOpen, resp,
          past>>

dbVars == <<users, nextUserId, dishes, nextDishId, files, orders, nextOrderId, order_items,
            refresh_tokens>>

NoCall == [op |-> "idle"]

\* a request whose arguments the response need not recall
NoReq == [op |-> "idle"]

\* the step sent no response
Silent == [op |-> "none", req |-> NoReq, r |-> NoResp]

(* ------------------------------- tokens -------------------------------- *)

\* scaled: the refresh token outlives the access token
AccessTtl == 2
RefreshTtl == 3

\* jwt.sign(payload, secret, {expiresIn}): HS256 is deterministic, so the
\* token is a function of the payload, the secret and the issue second
Sign(kind, userId, email, role, now) ==
  [kind |-> kind, userId |-> userId, email |-> email, role |-> role, iat |-> now]

Ttl(kind) == IF kind = "access" THEN AccessTtl ELSE RefreshTtl

\* a cookie value no secret of the server signed
Forged == [kind |-> "forged", userId |-> 0, email |-> "", role |-> "", iat |-> 0]
\* no cookie
NoToken == [kind |-> "none", userId |-> 0, email |-> "", role |-> "", iat |-> 0]

\* jwt.verify(token, secret): signature by that secret and not expired
Verify(token, kind, now) == token.kind = kind /\ now < token.iat + Ttl(kind)

Claims(token) == [userId |-> token.userId, email |-> token.email, role |-> token.role]

\* the cookie values a client may present
CookieInputs == issued \cup {Forged, NoToken}

(* ------------------------------ passwords ------------------------------ *)

\* bcrypt.hash / bcrypt.compare
Hash(password) == <<"bcrypt", password>>
Compare(password, hash) == hash = Hash(password)

(* -------------------------------- Init -------------------------------- *)

SeedUsers ==
  (1 :> [username |-> "root", password |-> Hash("pw1"), email |-> "a@x.io", role |-> "admin"])
  @@ (2 :> [username |-> "ann", password |-> Hash("pw2"), email |-> "b@x.io", role |-> "user"])

SeedDishes ==
  (1 :> [Name |-> "shoyu", Image |-> Val("uploads/d1.png")])
  @@ (2 :> [Name |-> "miso", Image |-> NULL])

\* the database as migrated and seeded, both seeded users holding an access
\* token from an earlier session that has since logged out
Seeded ==
  /\ users = SeedUsers
  /\ nextUserId = 3
  /\ dishes = SeedDishes
  /\ nextDishId = 3
  /\ files = {"uploads/d1.png"}
  /\ orders = << >>
  /\ nextOrderId = 1
  /\ order_items = {}
  /\ refresh_tokens = {}
  /\ issued = { Sign("access", u, SeedUsers[u].email, SeedUsers[u].role, 0) : u \in DOMAIN SeedUsers }
  /\ clock = 0
  /\ leaked = 0
  /\ pc = [p \in Procs |-> "idle"]
  /\ call = [p \in Procs |-> NoCall]
  /\ conn = [p \in Procs |-> FALSE]
  /\ txOpen = [p \in Procs |-> FALSE]
  /\ resp = Silent
  /\ past = {}

\* NODE_ENV unset
Init == production = FALSE /\ Seeded

\* NODE_ENV either 'production' or not
InitAnyEnv == production \in BOOLEAN /\ Seeded

(* ----------------------- shared handler plumbing ----------------------- *)

\* the pool of db.js: connectionLimit
PoolLimit == 10

\* the connections of the pool that are checked out
CheckedOut == Cardinality({p \in Procs : conn[p]}) + leaked

\* Finish without the release of the finally block
FinishKeepingConnection(p, op, req, r) ==
  /\ pc' = [pc EXCEPT ![p] = "idle"]
  /\ call' = [call EXCEPT ![p] = NoCall]
  /\ conn' = conn
  /\ resp' = [op |-> op, req |-> req, r |-> r]

\* the handler of p for route op ends: connection released, response r
\* sent to request req
Finish(p, op, req, r) ==
  /\ pc' = [pc EXCEPT ![p] = "idle"]
  /\ call' = [call EXCEPT ![p] = NoCall]
  /\ conn' = [conn EXCEPT ![p] = FALSE]
  /\ resp' = [op |-> op, req |-> req, r |-> r]

\* the handler of p goes on to label with locals c, holding its connection
Goto(p, label, c) ==
  /\ pc' = [pc EXCEPT ![p] = label]
  /\ call' = [call EXCEPT ![p] = c]
  /\ conn' = [conn EXCEPT ![p] = TRUE]
  /\ resp' = Silent

\* connection.beginTransaction()
Begin(p) == txOpen' = [txOpen EXCEPT ![p] = TRUE]
\* connection.commit() that succeeded, or connection.rollback()
End(p) == txOpen' = [txOpen EXCEPT ![p] = FALSE]

\* authenticateToken refusing a token whose user has no stored session
authenticateTokenWithSession(cookie) ==
  IF cookie.kind = "none" THEN Denied(401, "Access denied. No token provided.")
  ELSE IF ~Verify(cookie, "access", clock) THEN Denied(403, "Invalid token.")
  ELSE IF ~\E r \in refresh_tokens : r.userID = cookie.userId THEN Denied(403, "Invalid token.")
  ELSE NoResp

\* authenticateToken: NoResp when next() is called, else the answer
authenticateToken(cookie) ==
  IF cookie.kind = "none" THEN Denied(401, "Access denied. No token provided.")
  ELSE IF ~Verify(cookie, "access", clock) THEN Denied(403, "Invalid token.")
  ELSE NoResp

\* errorHandler putting err.message in the body in every environment
errorHandlerVerbose(err) == Resp(500, err, err, 0, {})

\* the global error handler, for the plain Error objects the services and
\* the driver throw (no name, no statusCode)
errorHandler(err) ==
  Resp(500, IF production THEN Msg("Internal Server Error", <<>>) ELSE err, err, 0, {})

(* ---------------------------- InnoDB locks ----------------------------- *)

\* the uncommitted order row of a createOrder transaction
OrderPending(p) == pc[p] \in {"co_items", "co_commit", "co_rollback"} /\ call[p].orderId # 0

\* FK check of an uncommitted orders row holds a shared lock on its users row
UserLocked(u) == \E q \in Procs : OrderPending(q) /\ call[q].userID = u

\* the uncommitted orders row itself is locked by its inserter
OrderLocked(o) == \E q \in Procs : OrderPending(q) /\ call[q].orderId = o

\* FK check of uncommitted order_items rows holds shared locks on their dishes
DishSharedBy(q, d) ==
  /\ pc[q] \in {"co_commit", "co_rollback"}
  /\ \E r \in call[q].pendItems : r.dishID = d

\* SELECT ... FOR UPDATE of deleteDish holds the exclusive lock
DishExclusiveBy(q, d) ==
  /\ pc[q] \in {"dd_delete", "dd_unlink", "dd_commit"}
  /\ call[q].dishId = d

\* the order_items rows a deleteDish transaction has deleted by cascade
ItemsLockedBy(q) ==
  IF pc[q] \in {"dd_unlink", "dd_commit"}
  THEN {r \in order_items : r.dishID = call[q].dishId}
  ELSE {}

ItemsLocked(rows) == \E q \in Procs : ItemsLockedBy(q) \cap rows # {}

(* ----------------------------- createOrder ----------------------------- *)

ItemInputs == [dishID : 1..MaxDishId, quantity : QtyInputs]

RECURSIVE SeqsUpTo(_, _)
SeqsUpTo(S, n) ==
  IF n = 0 THEN {<<>>}
  ELSE LET shorter == SeqsUpTo(S, n - 1)
       IN shorter \cup {Append(s, x) : s \in {t \in shorter : Len(t) = n - 1}, x \in S}

\* req.body.items: absent, or an array of at most MaxItems items
ItemsInputs ==
  {[present |-> FALSE, list |-> <<>>]}
  \cup {[present |-> TRUE, list |-> s] : s \in SeqsUpTo(ItemInputs, MaxItems)}

\* [...new Set(ids)]: first occurrences, in order
RECURSIVE Distinct(_)
Distinct(s) ==
  IF s = <<>> THEN <<>>
  ELSE LET front == Distinct(SubSeq(s, 1, Len(s) - 1))
           last == s[Len(s)]
       IN IF \E i \in 1..Len(front) : front[i] = last THEN front ELSE Append(front, last)

Range(s) == {s[i] : i \in 1..Len(s)}

\* the controller's catch of createOrder
CreateOrderError(err) ==
  IF \/ Includes(err.text, "required")
     \/ Includes(err.text, "Invalid")
     \/ Includes(err.text, "must contain")
     \/ Includes(err.text, "not found")
  THEN Fail(400, err)
  ELSE errorHandler(err)

\* lines 102-115: the checks before any connection is taken; NoMsg when
\* they pass
CreateOrderValidate(userId, items) ==
  IF userId = 0 THEN Msg("User ID is required", <<>>)
  ELSE IF ~items.present \/ Len(items.list) = 0
    THEN Msg("Order must contain at least one item", <<>>)
  ELSE LET bad == SelectSeq(items.list, LAMBDA it : ~isValidQuantity(it.quantity))
       IN IF bad # <<>> THEN Msg("Invalid quantity for dishID ", <<bad[1].dishID>>)
          ELSE NoMsg

CreateOrdersInFlight == Cardinality({q \in Procs : call[q].op = "createOrder"})

\* OrderOwner taking the user identifier of the body when there is one
OrderOwnerFromBody(claims, bodyUser) ==
  IF bodyUser # Undef THEN bodyUser.v ELSE claims.userId

\* const userID = req.user.userId: the body's userID is not read
OrderOwner(claims, bodyUser) == claims.userId

\* POST /orders up to getConnection, the body's items, paid and userID drawn
\* from Items, Paids and BodyUsers
CreateOrderStart(p, Items, Paids, BodyUsers) ==
  /\ pc[p] = "idle"
  /\ nextOrderId + CreateOrdersInFlight <= MaxOrders
  /\ \E cookie \in CookieInputs :
       LET denied == authenticateToken(cookie)
       IN IF denied # NoResp THEN Finish(p, "createOrder", NoReq, denied)
          ELSE \E items \in Items :
                 LET invalid == CreateOrderValidate(cookie.userId, items)
                 IN IF invalid # NoMsg
                    THEN Finish(p, "createOrder", NoReq, CreateOrderError(invalid))
                    ELSE \E paid \in Paids, bodyUser \in BodyUsers :
                           Goto(p, "co_check",
                                [op |-> "createOrder",
                                 userID |-> OrderOwner(Claims(cookie), bodyUser),
                                 items |-> items.list, paid |-> paid,
                                 orderId |-> 0, pendItems |-> {}, err |-> NoMsg,
                                 req |-> [caller |-> Claims(cookie), userID |-> bodyUser]])
  /\ UNCHANGED <<dbVars, issued, clock, production, leaked, txOpen, past>>

\* MissingIds without the Set: the ids are not made distinct
MissingIdsNoSet(items) ==
  LET dishIds == [i \in 1..Len(items) |-> items[i].dishID]
      foundIds == {d \in DOMAIN dishes : d \in Range(dishIds)}
  IN SelectSeq(dishIds, LAMBDA id : id \notin foundIds)

\* the ids of uniqueDishIds the catalog does not hold
MissingIds(items) ==
  LET uniqueDishIds == Distinct([i \in 1..Len(items) |-> items[i].dishID])
      foundIds == {d \in DOMAIN dishes : d \in Range(uniqueDishIds)}
  IN SelectSeq(uniqueDishIds, LAMBDA id : id \notin foundIds)

\* CreateOrderCheck with beginTransaction moved before the check and no
\* rollback on the throw
CreateOrderCheckInsideTx(p) ==
  /\ pc[p] = "co_check"
  /\ LET missingIds == MissingIds(call[p].items)
     IN IF missingIds # <<>>
        THEN Finish(p, "createOrder", NoReq, CreateOrderError(Msg("Dishes not found: ", missingIds)))
        ELSE Goto(p, "co_order", call[p])
  /\ Begin(p)
  /\ UNCHANGED <<dbVars, issued, clock, production, leaked, past>>

\* the existence check; on success beginTransaction
CreateOrderCheck(p) ==
  /\ pc[p] = "co_check"
  /\ LET missingIds == MissingIds(call[p].items)
     IN IF missingIds # <<>>
        THEN /\ Finish(p, "createOrder", NoReq, CreateOrderError(Msg("Dishes not found: ", missingIds)))
             /\ UNCHANGED txOpen
        ELSE /\ Goto(p, "co_order", call[p])
             /\ Begin(p)
  /\ UNCHANGED <<dbVars, issued, clock, production, leaked, past>>

\* paid ? 1 : 0
Truthy(x) == x = Val(TRUE)

NewOrderRow(userId, paid) ==
  [UserID |-> userId, Paid |-> Truthy(paid), Status |-> "ordered",
   processing_at |-> NULL, Delivering_at |-> NULL, Completed_at |-> NULL]

\* CreateOrderInsertOrder outside the transaction: the row is committed by
\* the statement itself
CreateOrderInsertOrderAutocommit(p) ==
  /\ pc[p] = "co_order"
  /\ \E fail \in BOOLEAN :
       IF fail
       THEN /\ Goto(p, "co_rollback", [call[p] EXCEPT !.err = ErIo])
            /\ UNCHANGED <<nextOrderId, orders>>
       ELSE IF call[p].userID \notin DOMAIN users
       THEN /\ Goto(p, "co_rollback", [call[p] EXCEPT !.err = ErFk])
            /\ UNCHANGED <<nextOrderId, orders>>
       ELSE /\ Goto(p, "co_items", [call[p] EXCEPT !.orderId = nextOrderId])
            /\ nextOrderId' = nextOrderId + 1
            /\ orders' = orders @@ (nextOrderId :> NewOrderRow(call[p].userID, call[p].paid))
  /\ UNCHANGED <<users, nextUserId, dishes, nextDishId, files, order_items,
                 refresh_tokens, issued, clock, production, leaked, txOpen, past>>

\* INSERT INTO orders inside the transaction
CreateOrderInsertOrder(p) ==
  /\ pc[p] = "co_order"
  /\ \E fail \in BOOLEAN :
       IF fail
       THEN /\ Goto(p, "co_rollback", [call[p] EXCEPT !.err = ErIo])
            /\ UNCHANGED nextOrderId
       ELSE IF call[p].userID \notin DOMAIN users
       THEN /\ Goto(p, "co_rollback", [call[p] EXCEPT !.err = ErFk])
            /\ UNCHANGED nextOrderId
       ELSE /\ Goto(p, "co_items", [call[p] EXCEPT !.orderId = nextOrderId])
            /\ nextOrderId' = nextOrderId + 1
  /\ UNCHANGED <<users, nextUserId, dishes, nextDishId, files, orders, order_items,
                 refresh_tokens, issued, clock, production, leaked, txOpen, past>>

\* items.map(item => [orderId, parseInt(dishID), parseInt(quantity) || 1])
OrderItemRows(orderId, items) ==
  [i \in 1..Len(items) |->
     [orderID |-> orderId, dishID |-> items[i].dishID,
      aantal |-> CoerceQuantity(items[i].quantity)]]

\* CreateOrderInsertItems with INSERT IGNORE: a repeated key is skipped
CreateOrderInsertItemsIgnoringDuplicates(p) ==
  /\ pc[p] = "co_items"
  /\ LET rows == OrderItemRows(call[p].orderId, call[p].items)
         keys == [i \in 1..Len(rows) |-> rows[i].dishID]
     IN /\ \A q \in Procs \ {p} : \A d \in Range(keys) : ~DishExclusiveBy(q, d)
        /\ IF \E d \in Range(keys) : d \notin DOMAIN dishes
           THEN Goto(p, "co_rollback", [call[p] EXCEPT !.err = ErFk])
           ELSE Goto(p, "co_commit", [call[p] EXCEPT !.pendItems = Range(rows)])
  /\ UNCHANGED <<dbVars, issued, clock, production, leaked, txOpen, past>>

\* INSERT INTO order_items ... VALUES ? (one batched statement): the rows go
\* in one by one, and the first row that fails decides the error, the
\* primary key (orderID, dishID) when an earlier row of the batch has its
\* key, the foreign key when its dish is gone
CreateOrderInsertItems(p) ==
  /\ pc[p] = "co_items"
  /\ LET rows == OrderItemRows(call[p].orderId, call[p].items)
         keys == [i \in 1..Len(rows) |-> rows[i].dishID]
         repeats(i) == \E j \in 1..(i - 1) : keys[j] = keys[i]
         bad == {i \in 1..Len(rows) : repeats(i) \/ keys[i] \notin DOMAIN dishes}
         first == CHOOSE i \in bad : \A j \in bad : i <= j
     IN /\ \A q \in Procs \ {p} : \A d \in Range(keys) : ~DishExclusiveBy(q, d)
        /\ \E fail \in BOOLEAN :
             IF fail
             THEN Goto(p, "co_rollback", [call[p] EXCEPT !.err = ErIo])
             ELSE IF bad # {}
             THEN Goto(p, "co_rollback",
                       [call[p] EXCEPT !.err = IF repeats(first) THEN ErDup ELSE ErFk])
             ELSE Goto(p, "co_commit", [call[p] EXCEPT !.pendItems = Range(rows)])
  /\ UNCHANGED <<dbVars, issued, clock, production, leaked, txOpen, past>>

\* the exception of io.emit, when it throws
ErEmit == Msg("emit failed", <<>>)

\* COMMIT, release, then in the controller emitNewOrder and 201; an
\* exception of the emit goes to the controller's catch
CreateOrderCommit(p) ==
  /\ pc[p] = "co_commit"
  /\ \E fail \in BOOLEAN :
       IF fail
       THEN /\ Goto(p, "co_rollback", [call[p] EXCEPT !.err = ErIo])
            /\ UNCHANGED <<orders, order_items, txOpen>>
       ELSE /\ orders' = orders @@ (call[p].orderId :> NewOrderRow(call[p].userID, call[p].paid))
            /\ order_items' = order_items \cup call[p].pendItems
            /\ End(p)
            /\ \E emit \in {"sent", "thrown"} :
                 Finish(p, "createOrder", call[p].req,
                        IF emit = "thrown" THEN CreateOrderError(ErEmit)
                        ELSE Ok(201, call[p].orderId))
  /\ UNCHANGED <<users, nextUserId, dishes, nextDishId, files, nextOrderId, refresh_tokens,
                 issued, clock, production, leaked, past>>

\* ROLLBACK, then release and rethrow
CreateOrderRollback(p) ==
  /\ pc[p] = "co_rollback"
  /\ End(p)
  /\ Finish(p, "createOrder", NoReq, CreateOrderError(call[p].err))
  /\ UNCHANGED <<dbVars, issued, clock, production, leaked, past>>

(* ----------------------------- updateOrder ----------------------------- *)

OrderIdInputs == 1..MaxOrders
StatusInputs == {Undef, Val("ordered"), Val("processing"), Val("delivering"), Val("completed")}
PaidInputs == {Undef, Val(TRUE), Val(FALSE)}

\* the value an ENUM('ordered', 'processing', 'delivering', 'completed')
\* column stores for a string: a member as itself, a quoted number that is
\* no member as the member at that index
EnumStatus(v) ==
  CASE v = "1" -> "ordered"
    [] v = "2" -> "processing"
    [] v = "3" -> "delivering"
    [] v = "4" -> "completed"
    [] OTHER -> v

\* UpdatedOrder writing the status without its timestamp
UpdatedOrderNoStamp(row, Status, Paid, now) ==
  [row EXCEPT
     !.Status = IF Status # Undef THEN EnumStatus(Status.v) ELSE @,
     !.Paid = IF Paid # Undef THEN Paid.v ELSE @]

\* UPDATE orders SET <fields> WHERE OrderID = ? on the matching row
UpdatedOrder(row, Status, Paid, now) ==
  [row EXCEPT
     !.Status = IF Status # Undef THEN EnumStatus(Status.v) ELSE @,
     !.processing_at = IF Status = Val("processing") THEN Val(now) ELSE @,
     !.Delivering_at = IF Status = Val("delivering") THEN Val(now) ELSE @,
     !.Completed_at = IF Status = Val("completed") THEN Val(now) ELSE @,
     !.Paid = IF Paid # Undef THEN Paid.v ELSE @]

\* the controller's catch of updateOrder and deleteOrder
OrderError(err) ==
  IF Includes(err.text, "No fields") THEN Fail(400, err)
  ELSE IF err.text = "Order not found" THEN Fail(404, err)
  ELSE errorHandler(err)

\* UpdateOrder refusing a status that does not follow the current one
UpdateOrderForwardOnly(p, Cookies, Statuses, Paids) ==
  /\ pc[p] = "idle"
  /\ \E cookie \in Cookies, id \in DOMAIN orders, Status \in Statuses \ {Undef}, Paid \in Paids :
       LET rank == [s \in {"ordered", "processing", "delivering", "completed"} |->
                      CASE s = "ordered" -> 0 [] s = "processing" -> 1
                        [] s = "delivering" -> 2 [] OTHER -> 3]
       IN /\ authenticateToken(cookie) = NoResp
          /\ ~OrderLocked(id)
          /\ IF rank[Status.v] = rank[orders[id].Status] + 1
             THEN /\ orders' = [orders EXCEPT ![id] = UpdatedOrder(@, Status, Paid, clock)]
                  /\ Finish(p, "updateOrder", [id |-> id, Status |-> Status, Paid |-> Paid],
                            Ok(200, 0))
             ELSE /\ Finish(p, "updateOrder", NoReq,
                            Fail(400, Msg("Invalid status transition", <<>>)))
                  /\ UNCHANGED orders
  /\ UNCHANGED <<users, nextUserId, dishes, nextDishId, files, nextOrderId, order_items,
                 refresh_tokens, issued, clock, production, leaked, txOpen, past>>

\* PUT /orders/:id, the accessToken cookie drawn from Cookies, the body's
\* Status and Paid from Statuses and Paids
UpdateOrder(p, Cookies, Statuses, Paids) ==
  /\ pc[p] = "idle"
  /\ \E cookie \in Cookies :
       LET denied == authenticateToken(cookie)
       IN IF denied # NoResp THEN Finish(p, "updateOrder", NoReq, denied) /\ UNCHANGED orders
          ELSE \E id \in OrderIdInputs, Status \in Statuses, Paid \in Paids :
            IF Status = Undef /\ Paid = Undef
            THEN /\ Finish(p, "updateOrder", NoReq, OrderError(Msg("No fields provided for update", <<>>)))
                 /\ UNCHANGED orders
            ELSE /\ ~OrderLocked(id)
                 /\ IF id \notin DOMAIN orders
                    THEN /\ Finish(p, "updateOrder", NoReq, OrderError(Msg("Order not found", <<>>)))
                         /\ UNCHANGED orders
                    ELSE /\ orders' = [orders EXCEPT ![id] = UpdatedOrder(@, Status, Paid, clock)]
                         /\ Finish(p, "updateOrder", [id |-> id, Status |-> Status, Paid |-> Paid],
                                   Ok(200, 0))
  /\ UNCHANGED <<users, nextUserId, dishes, nextDishId, files, nextOrderId, order_items,
                 refresh_tokens, issued, clock, production, leaked, txOpen, past>>

(* ----------------------------- deleteOrder ----------------------------- *)

Without(f, S) == [k \in DOMAIN f \ S |-> f[k]]

ItemsOfOrders(S) == {r \in order_items : r.orderID \in S}

\* DELETE /orders/:id; order_items rows go by ON DELETE CASCADE
DeleteOrder(p) ==
  /\ pc[p] = "idle"
  /\ \E cookie \in CookieInputs, id \in OrderIdInputs :
       LET denied == authenticateToken(cookie)
       IN IF denied # NoResp THEN Finish(p, "deleteOrder", NoReq, denied) /\ UNCHANGED <<orders, order_items>>
          ELSE /\ ~OrderLocked(id)
               /\ ~ItemsLocked(ItemsOfOrders({id}))
               /\ IF id \notin DOMAIN orders
                  THEN /\ Finish(p, "deleteOrder", NoReq, OrderError(Msg("Order not found", <<>>)))
                       /\ UNCHANGED <<orders, order_items>>
                  ELSE /\ orders' = Without(orders, {id})
                       /\ order_items' = order_items \ ItemsOfOrders({id})
                       /\ Finish(p, "deleteOrder", NoReq, Ok(200, 0))
  /\ UNCHANGED <<users, nextUserId, dishes, nextDishId, files, nextOrderId, refresh_tokens,
                 issued, clock, production, leaked, txOpen, past>>

(* ------------------------------ deleteUser ----------------------------- *)

UserIdInputs == 1..(2 + MaxNewUsers)

\* ensureOwnerOrAdmin letting every authenticated caller through
ensureOwnerOrAdminAnyCaller(user, id) == NoResp

\* ensureOwnerOrAdmin: NoResp when next() is called
ensureOwnerOrAdmin(user, id) ==
  IF user.role = "admin" THEN NoResp
  ELSE IF user.userId = id THEN NoResp
  ELSE Denied(403, "Access denied. You can only modify your own account.")

\* authorizeRoles letting every authenticated caller through
authorizeRolesAnyRole(user, allowedRoles) == NoResp

\* authorizeRoles(...allowedRoles)
authorizeRoles(user, allowedRoles) ==
  IF user.role \notin allowedRoles
  THEN Denied(403, "Access denied. Insufficient permissions.")
  ELSE NoResp

\* the controller's catch of deleteUser
DeleteUserError(err) ==
  IF Includes(err.text, "Cannot delete") \/ err.text = "User not found"
  THEN Fail(IF err.text = "User not found" THEN 404 ELSE 400, err)
  ELSE errorHandler(err)

\* SELECT COUNT(*) FROM orders WHERE UserID = ? AND Status != 'completed'
ActiveOrders(userId) ==
  {o \in DOMAIN orders : orders[o].UserID = userId /\ orders[o].Status # "completed"}

\* DELETE /users/:id up to the count of active orders
DeleteUserCheck(p) ==
  /\ pc[p] = "idle"
  /\ \E cookie \in CookieInputs, id \in UserIdInputs :
       LET denied == authenticateToken(cookie)
           refused == ensureOwnerOrAdmin(Claims(cookie), id)
       IN IF denied # NoResp THEN Finish(p, "deleteUser", NoReq, denied)
          ELSE IF refused # NoResp
          THEN Finish(p, "deleteUser", [id |-> id, currentUser |-> Claims(cookie)], refused)
          ELSE IF Cardinality(ActiveOrders(id)) > 0
          THEN Finish(p, "deleteUser", NoReq, DeleteUserError(Msg("Cannot delete user with active orders. Please complete or delete active orders first.", <<>>)))
          ELSE Goto(p, "du_delete", [op |-> "deleteUser", userId |-> id,
                                     currentUser |-> Claims(cookie)])
  /\ UNCHANGED <<dbVars, issued, clock, production, leaked, txOpen, past>>

OrdersOfUser(userId) == {o \in DOMAIN orders : orders[o].UserID = userId}

\* DELETE FROM users WHERE UserID = ?; orders, their order_items and the
\* refresh_tokens of the user go by ON DELETE CASCADE
DeleteUserDelete(p) ==
  /\ pc[p] = "du_delete"
  /\ LET id == call[p].userId
     IN /\ ~UserLocked(id)
        /\ ~ItemsLocked(ItemsOfOrders(OrdersOfUser(id)))
        /\ IF id \notin DOMAIN users
           THEN /\ Finish(p, "deleteUser", NoReq, DeleteUserError(Msg("User not found", <<>>)))
                /\ UNCHANGED <<users, orders, order_items, refresh_tokens>>
           ELSE /\ users' = Without(users, {id})
                /\ orders' = Without(orders, OrdersOfUser(id))
                /\ order_items' = order_items \ ItemsOfOrders(OrdersOfUser(id))
                /\ refresh_tokens' = {r \in refresh_tokens : r.userID # id}
                /\ Finish(p, "deleteUser", NoReq, Ok(200, 0))
  /\ UNCHANGED <<nextUserId, dishes, nextDishId, files, nextOrderId, issued, clock, production, leaked, txOpen, past>>

(* ------------------------------ deleteDish ----------------------------- *)

\* the controller's catch of deleteDish
DeleteDishError(err) ==
  IF Includes(err.text, "Cannot delete dish") THEN Fail(400, err)
  ELSE IF err.text = "Dish not found" THEN Fail(404, err)
  ELSE errorHandler(err)

\* DELETE /dishes/:id up to the count of referencing order_items, whose
\* result the service does not use (the check on it is commented out)
DeleteDishStart(p) ==
  /\ pc[p] = "idle"
  /\ \E cookie \in CookieInputs :
       LET denied == authenticateToken(cookie)
           refused == authorizeRoles(Claims(cookie), {"admin"})
           req == [cookie |-> cookie]
       IN IF denied # NoResp THEN Finish(p, "deleteDish", req, denied) /\ UNCHANGED txOpen
          ELSE IF refused # NoResp THEN Finish(p, "deleteDish", req, refused) /\ UNCHANGED txOpen
          ELSE \E id \in 1..MaxDishId :
                 /\ Goto(p, "dd_select", [op |-> "deleteDish", cookie |-> cookie,
                                          dishId |-> id, imagePath |-> NULL])
                 /\ Begin(p)
  /\ UNCHANGED <<dbVars, issued, clock, production, leaked, past>>

\* SELECT Image FROM dishes WHERE DishID = ? FOR UPDATE
DeleteDishSelect(p) ==
  /\ pc[p] = "dd_select"
  /\ LET id == call[p].dishId
     IN /\ \A q \in Procs \ {p} : ~DishSharedBy(q, id) /\ ~DishExclusiveBy(q, id)
        /\ IF id \notin DOMAIN dishes
           THEN /\ Finish(p, "deleteDish", NoReq, DeleteDishError(Msg("Dish not found", <<>>)))
                /\ End(p)
           ELSE /\ Goto(p, "dd_delete", [call[p] EXCEPT !.imagePath = dishes[id].Image])
                /\ UNCHANGED txOpen
  /\ UNCHANGED <<dbVars, issued, clock, production, leaked, past>>

\* DELETE FROM dishes WHERE DishID = ? inside the transaction
DeleteDishDelete(p) ==
  /\ pc[p] = "dd_delete"
  /\ Goto(p, IF call[p].imagePath # NULL THEN "dd_unlink" ELSE "dd_commit", call[p])
  /\ UNCHANGED <<dbVars, issued, clock, production, leaked, txOpen, past>>

\* variant: any failure of unlink is tolerated
DeleteDishUnlinkIgnoringFailure(p) ==
  /\ pc[p] = "dd_unlink"
  /\ \E code \in {"ok", "EACCES"} :
       /\ Goto(p, "dd_commit", call[p])
       /\ files' = IF code = "ok" THEN files \ {call[p].imagePath.v} ELSE files
       /\ UNCHANGED txOpen
  /\ UNCHANGED <<users, nextUserId, dishes, nextDishId, orders, nextOrderId, order_items,
                 refresh_tokens, issued, clock, production, leaked, past>>

\* fs.promises.unlink(imagePath): removes the file, or fails with ENOENT
\* (tolerated) or with another code (rollback and throw)
DeleteDishUnlink(p) ==
  /\ pc[p] = "dd_unlink"
  /\ LET path == call[p].imagePath.v
     IN IF path \notin files
        THEN Goto(p, "dd_commit", call[p]) /\ UNCHANGED <<files, txOpen>>
        ELSE \E code \in {"ok", "EACCES"} :
               IF code = "ok"
               THEN /\ Goto(p, "dd_commit", call[p])
                    /\ files' = files \ {path}
                    /\ UNCHANGED txOpen
               ELSE /\ Finish(p, "deleteDish", NoReq, DeleteDishError(Msg("Failed to delete associated image file", <<>>)))
                    /\ End(p)
                    /\ UNCHANGED files
  /\ UNCHANGED <<users, nextUserId, dishes, nextDishId, orders, nextOrderId, order_items,
                 refresh_tokens, issued, clock, production, leaked, past>>

\* variant: the commit answers 200 without the DELETE having taken effect
DeleteDishCommitKeepingRow(p) ==
  /\ pc[p] = "dd_commit"
  /\ Finish(p, "deleteDish", NoReq, Ok(200, 0))
  /\ End(p)
  /\ UNCHANGED <<dbVars, issued, clock, production, leaked, past>>

\* COMMIT (order_items rows of the dish go by ON DELETE CASCADE); a failed
\* commit is caught, rolled back and rethrown
DeleteDishCommit(p) ==
  /\ pc[p] = "dd_commit"
  /\ \E fail \in BOOLEAN :
       IF fail
       THEN Finish(p, "deleteDish", NoReq, DeleteDishError(ErIo)) /\ UNCHANGED <<dishes, order_items>>
       ELSE /\ dishes' = Without(dishes, {call[p].dishId})
            /\ order_items' = {r \in order_items : r.dishID # call[p].dishId}
            /\ Finish(p, "deleteDish", NoReq, Ok(200, 0))
  /\ End(p)
  /\ UNCHANGED <<users, nextUserId, nextDishId, files, orders, nextOrderId, refresh_tokens,
                 issued, clock, production, leaked, past>>

(* ------------------------- createDish, updateDish ---------------------- *)

\* parseFloat(price) is a number >= 0, over the prices the requests carry
\* ("9.5" and "abc")
isValidPrice(price) == price = "9.5"

\* upload.single('image'): the file of the request is on disk before the
\* controller runs
Stored(upload) == IF upload # Undef THEN files \cup {upload.v} ELSE files

\* the controller's catch of createDish
CreateDishError(err) ==
  IF Includes(err.text, "required") \/ Includes(err.text, "Invalid price")
  THEN Fail(400, err)
  ELSE errorHandler(err)

\* the checks of createDish before any connection is taken (the request
\* always carries Ingredients)
CreateDishValidate(Name, Price) ==
  IF Name = Undef \/ Price = Undef
    THEN Msg("Name, Price and Ingredients are required", <<>>)
  ELSE IF ~isValidPrice(Price.v) THEN Msg("Invalid price format", <<>>)
  ELSE NoMsg

\* POST /dishes: the row is inserted without the path of the upload
CreateDish(p, Names, Prices, Uploads) ==
  /\ pc[p] = "idle"
  /\ \E cookie \in CookieInputs :
       LET denied == authenticateToken(cookie)
           refused == authorizeRoles(Claims(cookie), {"admin"})
       IN IF denied # NoResp
          THEN Finish(p, "createDish", [cookie |-> cookie], denied)
               /\ UNCHANGED <<dishes, nextDishId, files>>
          ELSE IF refused # NoResp
          THEN Finish(p, "createDish", [cookie |-> cookie], refused)
               /\ UNCHANGED <<dishes, nextDishId, files>>
          ELSE \E Name \in Names, Price \in Prices, upload \in Uploads :
                 LET req == [cookie |-> cookie, Name |-> Name, Price |-> Price, upload |-> upload]
                     invalid == CreateDishValidate(Name, Price)
                 IN /\ files' = Stored(upload)
                    /\ IF invalid # NoMsg
                       THEN /\ Finish(p, "createDish", req, CreateDishError(invalid))
                            /\ UNCHANGED <<dishes, nextDishId>>
                       ELSE /\ nextDishId <= MaxDishId
                            /\ dishes' = dishes @@ (nextDishId :> [Name |-> Name.v, Image |-> NULL])
                            /\ nextDishId' = nextDishId + 1
                            /\ Finish(p, "createDish", req, Ok(201, nextDishId))
  /\ UNCHANGED <<users, nextUserId, orders, nextOrderId, order_items, refresh_tokens,
                 issued, clock, production, leaked, txOpen, past>>

\* the controller's catch of updateDish
UpdateDishError(err) ==
  IF Includes(err.text, "No fields") \/ Includes(err.text, "Invalid price")
  THEN Fail(400, err)
  ELSE IF err.text = "Dish not found" THEN Fail(404, err)
  ELSE errorHandler(err)

\* the checks of updateDish before the UPDATE (the controller passes no
\* imagePath, and the request here carries no Ingredients)
UpdateDishValidate(Name, Price) ==
  IF Price # Undef /\ ~isValidPrice(Price.v) THEN Msg("Invalid price format", <<>>)
  ELSE IF Name = Undef /\ Price = Undef THEN Msg("No fields provided for update", <<>>)
  ELSE NoMsg

\* PUT /dishes/:id
UpdateDish(p, Names, Prices, Uploads) ==
  /\ pc[p] = "idle"
  /\ \E cookie \in CookieInputs :
       LET denied == authenticateToken(cookie)
           refused == authorizeRoles(Claims(cookie), {"admin"})
       IN IF denied # NoResp
          THEN Finish(p, "updateDish", [cookie |-> cookie], denied) /\ UNCHANGED <<dishes, files>>
          ELSE IF refused # NoResp
          THEN Finish(p, "updateDish", [cookie |-> cookie], refused) /\ UNCHANGED <<dishes, files>>
          ELSE \E id \in 1..MaxDishId, Name \in Names, Price \in Prices, upload \in Uploads :
                 LET req == [cookie |-> cookie, id |-> id, Name |-> Name, Price |-> Price,
                             upload |-> upload]
                     invalid == UpdateDishValidate(Name, Price)
                 IN /\ files' = Stored(upload)
                    /\ IF invalid # NoMsg
                       THEN Finish(p, "updateDish", req, UpdateDishError(invalid)) /\ UNCHANGED dishes
                       ELSE /\ \A q \in Procs : ~DishSharedBy(q, id) /\ ~DishExclusiveBy(q, id)
                            /\ IF id \notin DOMAIN dishes
                               THEN /\ Finish(p, "updateDish", req,
                                              UpdateDishError(Msg("Dish not found", <<>>)))
                                    /\ UNCHANGED dishes
                               ELSE /\ dishes' = [dishes EXCEPT ![id].Name =
                                                    IF Name # Undef THEN Name.v ELSE @]
                                    /\ Finish(p, "updateDish", req, Ok(200, 0))
  /\ UNCHANGED <<users, nextUserId, nextDishId, orders, nextOrderId, order_items,
                 refresh_tokens, issued, clock, production, leaked, txOpen, past>>

(* ----------------------------- getDishById ----------------------------- *)

\* SELECT * FROM dishes WHERE DishID = ?: the row, or null
DishById(dishId) == IF dishId \in DOMAIN dishes THEN Val(dishes[dishId]) ELSE NULL

\* GET /dishes/:id (no middleware)
GetDishById(p) ==
  /\ pc[p] = "idle"
  /\ \E id \in 1..MaxDishId :
       Finish(p, "getDishById", [id |-> id],
              IF DishById(id) = NULL THEN Denied(404, "Dish not found") ELSE Ok(200, id))
  /\ UNCHANGED <<dbVars, issued, clock, production, leaked, txOpen, past>>

(* -------------------------------- login -------------------------------- *)

\* emailRegex.test(email) over the addresses the requests carry
WellFormedEmails == {"a@x.io", "b@x.io", "c@x.io"}
isValidEmail(email) == email \in WellFormedEmails

EmailInputs == {Undef, Val("a@x.io"), Val("c@x.io"), Val("bad")}
PasswordInputs == {Undef, Val("pw1"), Val("pw9")}

\* SELECT ... FROM users WHERE email = ?
UsersByEmail(email) == {u \in DOMAIN users : users[u].email = email}

\* the controller's catch of login
LoginError(err) ==
  IF Includes(err.text, "required") \/ Includes(err.text, "Invalid")
  THEN Fail(IF Includes(err.text, "Invalid email or password") THEN 401 ELSE 400, err)
  ELSE errorHandler(err)

\* LoginSelect telling the caller that no user holds the email
LoginSelectNamingCause(p, Emails, Passwords) ==
  /\ pc[p] = "idle"
  /\ \E email \in Emails, password \in Passwords :
       LET req == [email |-> email, password |-> password]
       IN IF email = Undef \/ password = Undef
          THEN Finish(p, "login", req, LoginError(Msg("Email and password are required", <<>>)))
          ELSE IF ~isValidEmail(email.v)
          THEN Finish(p, "login", req, LoginError(Msg("Invalid email format", <<>>)))
          ELSE LET results == UsersByEmail(email.v)
               IN IF results = {}
                  THEN Finish(p, "login", req, Fail(404, Msg("User not found", <<>>)))
                  ELSE LET u == CHOOSE u \in results : TRUE
                       IN IF ~Compare(password.v, users[u].password)
                          THEN Finish(p, "login", req, LoginError(Msg("Invalid email or password", <<>>)))
                          ELSE Goto(p, "li_insert",
                                    [op |-> "login", req |-> req,
                                     user |-> [userID |-> u, email |-> users[u].email,
                                               role |-> users[u].role]])
  /\ UNCHANGED <<dbVars, issued, clock, production, leaked, txOpen, past>>

\* POST /auth/login up to bcrypt.compare, the body's email and password
\* drawn from Emails and Passwords
LoginSelect(p, Emails, Passwords) ==
  /\ pc[p] = "idle"
  /\ \E email \in Emails, password \in Passwords :
       LET req == [email |-> email, password |-> password]
       IN IF email = Undef \/ password = Undef
          THEN Finish(p, "login", req, LoginError(Msg("Email and password are required", <<>>)))
          ELSE IF ~isValidEmail(email.v)
          THEN Finish(p, "login", req, LoginError(Msg("Invalid email format", <<>>)))
          ELSE LET results == UsersByEmail(email.v)
               IN IF results = {}
                  THEN Finish(p, "login", req, LoginError(Msg("Invalid email or password", <<>>)))
                  ELSE LET u == CHOOSE u \in results : TRUE
                       IN IF ~Compare(password.v, users[u].password)
                          THEN Finish(p, "login", req, LoginError(Msg("Invalid email or password", <<>>)))
                          ELSE Goto(p, "li_insert",
                                    [op |-> "login", req |-> req,
                                     user |-> [userID |-> u, email |-> users[u].email,
                                               role |-> users[u].role]])
  /\ UNCHANGED <<dbVars, issued, clock, production, leaked, txOpen, past>>

\* jwt.sign of both tokens and INSERT INTO refresh_tokens (token is the
\* primary key, userID references users)
LoginInsert(p) ==
  /\ pc[p] = "li_insert"
  /\ LET user == call[p].user
         accessToken == Sign("access", user.userID, user.email, user.role, clock)
         refreshToken == Sign("refresh", user.userID, user.email, user.role, clock)
     IN IF user.userID \notin DOMAIN users
        THEN /\ Finish(p, "login", call[p].req, LoginError(ErFk))
             /\ UNCHANGED <<refresh_tokens, issued>>
        ELSE IF \E r \in refresh_tokens : r.token = refreshToken
        THEN /\ Finish(p, "login", call[p].req, LoginError(ErDup))
             /\ UNCHANGED <<refresh_tokens, issued>>
        ELSE /\ refresh_tokens' = refresh_tokens \cup {[token |-> refreshToken, userID |-> user.userID]}
             /\ issued' = issued \cup {accessToken, refreshToken}
             /\ Finish(p, "login", call[p].req,
                       Resp(200, NoMsg, NoMsg, user.userID, {accessToken, refreshToken}))
  /\ UNCHANGED <<users, nextUserId, dishes, nextDishId, files, orders, nextOrderId, order_items,
                 clock, production, leaked, txOpen, past>>

(* ------------------------------- refresh ------------------------------- *)

\* the controller's catch of refreshToken
RefreshError(err) ==
  IF Includes(err.text, "Required") \/ Includes(err.text, "Invalid") \/ Includes(err.text, "Revoked")
  THEN Fail(IF Includes(err.text, "Required") THEN 401 ELSE 403, err)
  ELSE errorHandler(err)

\* RefreshToken without the lookup in refresh_tokens
RefreshTokenBySignature(p, Cookies) ==
  /\ pc[p] = "idle"
  /\ \E token \in Cookies :
       LET req == [token |-> token]
       IN IF token.kind = "none"
          THEN /\ Finish(p, "refresh", req, RefreshError(Msg("Refresh Token Required", <<>>)))
               /\ UNCHANGED issued
          ELSE IF ~Verify(token, "refresh", clock)
          THEN /\ Finish(p, "refresh", req, RefreshError(Msg("Invalid Refresh Token", <<>>)))
               /\ UNCHANGED issued
          ELSE LET accessToken == Sign("access", token.userId, token.email, token.role, clock)
               IN /\ issued' = issued \cup {accessToken}
                  /\ Finish(p, "refresh", req, Resp(200, NoMsg, NoMsg, 0, {accessToken}))
  /\ UNCHANGED <<dbVars, clock, production, leaked, txOpen, past>>

\* RefreshToken signing the email and role of the user's row as it is now
RefreshTokenFromUsersRow(p, Cookies) ==
  /\ pc[p] = "idle"
  /\ \E token \in Cookies :
       /\ Verify(token, "refresh", clock)
       /\ \E r \in refresh_tokens : r.token = token
       /\ token.userId \in DOMAIN users
       /\ issued' = issued \cup {Sign("access", token.userId, users[token.userId].email,
                                      users[token.userId].role, clock)}
       /\ Finish(p, "refresh", [token |-> token],
                 Resp(200, NoMsg, NoMsg, 0,
                      {Sign("access", token.userId, users[token.userId].email,
                            users[token.userId].role, clock)}))
  /\ UNCHANGED <<dbVars, clock, production, leaked, txOpen, past>>

\* RefreshToken consuming the row of the token it exchanges
RefreshTokenRotating(p, Cookies) ==
  /\ pc[p] = "idle"
  /\ \E token \in Cookies :
       /\ Verify(token, "refresh", clock)
       /\ \E r \in refresh_tokens : r.token = token
       /\ refresh_tokens' = {r \in refresh_tokens : r.token # token}
       /\ issued' = issued \cup {Sign("access", token.userId, token.email, token.role, clock)}
       /\ Finish(p, "refresh", [token |-> token],
                 Resp(200, NoMsg, NoMsg, 0,
                      {Sign("access", token.userId, token.email, token.role, clock)}))
  /\ UNCHANGED <<users, nextUserId, dishes, nextDishId, files, orders, nextOrderId, order_items,
                 clock, production, leaked, txOpen, past>>

\* POST /auth/refresh, the refreshToken cookie drawn from Cookies
RefreshToken(p, Cookies) ==
  /\ pc[p] = "idle"
  /\ \E token \in Cookies :
       LET req == [token |-> token]
       IN IF token.kind = "none"
          THEN /\ Finish(p, "refresh", req, RefreshError(Msg("Refresh Token Required", <<>>)))
               /\ UNCHANGED issued
          ELSE IF ~Verify(token, "refresh", clock)
          THEN /\ Finish(p, "refresh", req, RefreshError(Msg("Invalid Refresh Token", <<>>)))
               /\ UNCHANGED issued
          ELSE IF ~\E r \in refresh_tokens : r.token = token
          THEN /\ Finish(p, "refresh", req, RefreshError(Msg("Refresh Token Not Found (Revoked)", <<>>)))
               /\ UNCHANGED issued
          ELSE LET accessToken == Sign("access", token.userId, token.email, token.role, clock)
               IN /\ issued' = issued \cup {accessToken}
                  /\ Finish(p, "refresh", req, Resp(200, NoMsg, NoMsg, 0, {accessToken}))
  /\ UNCHANGED <<dbVars, clock, production, leaked, txOpen, past>>

(* -------------------------------- logout ------------------------------- *)

Revoked(token) == [event |-> "revoked", token |-> token, email |-> ""]

\* POST /auth/logout, the refreshToken cookie drawn from Cookies
Logout(p, Cookies) ==
  /\ pc[p] = "idle"
  /\ \E token \in Cookies :
       LET req == [token |-> token]
       IN IF token.kind = "none"
          THEN /\ Finish(p, "logout", req, Fail(400, Msg("Token required", <<>>)))
               /\ UNCHANGED <<refresh_tokens, past>>
          ELSE /\ refresh_tokens' = {r \in refresh_tokens : r.token # token}
               /\ past' = IF \E r \in refresh_tokens : r.token = token
                          THEN past \cup {Revoked(token)} ELSE past
               /\ Finish(p, "logout", req, Ok(200, 0))
  /\ UNCHANGED <<users, nextUserId, dishes, nextDishId, files, orders, nextOrderId, order_items,
                 issued, clock, production, leaked, txOpen>>

(* ------------------------------ createUser ----------------------------- *)

UsernameInputs == {Undef, Val("zed")}

Refused(email) == [event |-> "exists", token |-> NoToken, email |-> email]

\* the controller's catch of createUser
CreateUserError(err) ==
  IF Includes(err.text, "required") \/ Includes(err.text, "Invalid") \/ Includes(err.text, "exists")
  THEN Fail(400, err)
  ELSE errorHandler(err)

CreateUsersInFlight == Cardinality({q \in Procs : call[q].op = "createUser"})

\* CreateUserCheck without the SELECT on the email
CreateUserCheckNoLookup(p, Usernames, Emails, Passwords, Roles) ==
  /\ pc[p] = "idle"
  /\ nextUserId + CreateUsersInFlight <= 2 + MaxNewUsers
  /\ \E username \in Usernames, email \in Emails, password \in Passwords, role \in Roles :
       LET req == [username |-> username, email |-> email, password |-> password,
                   role |-> role]
       IN IF username = Undef \/ password = Undef \/ email = Undef
          THEN Finish(p, "createUser", req,
                      CreateUserError(Msg("Username, password, and email are required", <<>>)))
          ELSE IF ~isValidEmail(email.v)
          THEN Finish(p, "createUser", req, CreateUserError(Msg("Invalid email format", <<>>)))
          ELSE Goto(p, "cu_insert", [op |-> "createUser", req |-> req])
  /\ UNCHANGED <<dbVars, issued, clock, production, leaked, txOpen, past>>

\* POST /users up to the SELECT on the email, the body drawn from Usernames,
\* Emails, Passwords and Roles
CreateUserCheck(p, Usernames, Emails, Passwords, Roles) ==
  /\ pc[p] = "idle"
  /\ nextUserId + CreateUsersInFlight <= 2 + MaxNewUsers
  /\ \E username \in Usernames, email \in Emails, password \in Passwords, role \in Roles :
       LET req == [username |-> username, email |-> email, password |-> password,
                   role |-> role]
       IN IF username = Undef \/ password = Undef \/ email = Undef
          THEN /\ Finish(p, "createUser", req,
                         CreateUserError(Msg("Username, password, and email are required", <<>>)))
               /\ UNCHANGED past
          ELSE IF ~isValidEmail(email.v)
          THEN /\ Finish(p, "createUser", req, CreateUserError(Msg("Invalid email format", <<>>)))
               /\ UNCHANGED past
          ELSE IF UsersByEmail(email.v) # {}
          THEN /\ Finish(p, "createUser", req, CreateUserError(Msg("Email already exists", <<>>)))
               /\ past' = past \cup {Refused(email.v)}
          ELSE /\ Goto(p, "cu_insert", [op |-> "createUser", req |-> req])
               /\ UNCHANGED past
  /\ UNCHANGED <<dbVars, issued, clock, production, leaked, txOpen>>

\* NewUserRow taking the role of the body when there is one
NewUserRowWithBodyRole(req) ==
  [username |-> req.username.v, password |-> Hash(req.password.v),
   email |-> req.email.v, role |-> IF req.role # Undef THEN req.role.v ELSE "user"]

\* the row of the INSERT: userRole is the constant 'user'
NewUserRow(req) ==
  [username |-> req.username.v, password |-> Hash(req.password.v),
   email |-> req.email.v, role |-> "user"]

\* bcrypt.hash and INSERT INTO users (email is UNIQUE; the AUTO_INCREMENT
\* value a failed INSERT took is not given back)
CreateUserInsert(p) ==
  /\ pc[p] = "cu_insert"
  /\ nextUserId' = nextUserId + 1
  /\ IF UsersByEmail(call[p].req.email.v) # {}
     THEN /\ Finish(p, "createUser", call[p].req, CreateUserError(ErDup))
          /\ UNCHANGED users
     ELSE /\ users' = users @@ (nextUserId :> NewUserRow(call[p].req))
          /\ Finish(p, "createUser", call[p].req, Ok(201, nextUserId))
  /\ UNCHANGED <<dishes, nextDishId, files, orders, nextOrderId, order_items, refresh_tokens,
                 issued, clock, production, leaked, txOpen, past>>

(* ------------------------------ updateUser ----------------------------- *)

RoleInputs == {Undef, Val("admin"), Val("user")}

\* the controller's catch of updateUser
UpdateUserError(err) ==
  IF \/ Includes(err.text, "Access denied")
     \/ Includes(err.text, "Invalid")
     \/ Includes(err.text, "No fields")
  THEN Fail(IF Includes(err.text, "Access denied") THEN 403 ELSE 400, err)
  ELSE IF err.text = "User not found" THEN Fail(404, err)
  ELSE errorHandler(err)

\* UpdateUserValidate without the check on the role field
UpdateUserValidateNoRoleCheck(userId, data, currentUser) ==
  IF data.email # Undef /\ ~isValidEmail(data.email.v)
    THEN Msg("Invalid email format", <<>>)
  ELSE IF data.username = Undef /\ data.password = Undef /\ data.email = Undef /\ data.role = Undef
    THEN Msg("No fields provided for update", <<>>)
  ELSE NoMsg

\* lines 159-213: the checks before any connection is taken; NoMsg when they
\* pass
UpdateUserValidate(userId, data, currentUser) ==
  IF data.role # Undef /\ currentUser.role # "admin"
    THEN Msg("Access denied: Only admins can change roles", <<>>)
  ELSE IF data.role # Undef /\ currentUser.userId = userId
    THEN Msg("Access denied: You cannot change your own role", <<>>)
  ELSE IF data.email # Undef /\ ~isValidEmail(data.email.v)
    THEN Msg("Invalid email format", <<>>)
  ELSE IF data.username = Undef /\ data.password = Undef /\ data.email = Undef /\ data.role = Undef
    THEN Msg("No fields provided for update", <<>>)
  ELSE NoMsg

\* UPDATE users SET <fields> WHERE UserID = ? on the matching row
UpdatedUser(row, data) ==
  [row EXCEPT
     !.username = IF data.username # Undef THEN data.username.v ELSE @,
     !.password = IF data.password # Undef THEN Hash(data.password.v) ELSE @,
     !.email = IF data.email # Undef THEN data.email.v ELSE @,
     !.role = IF data.role # Undef THEN data.role.v ELSE @]

\* PUT /users/:id, the body drawn from Usernames, Passwords, Emails and Roles
UpdateUser(p, Usernames, Passwords, Emails, Roles) ==
  /\ pc[p] = "idle"
  /\ \E cookie \in CookieInputs :
       LET denied == authenticateToken(cookie)
       IN IF denied # NoResp
          THEN Finish(p, "updateUser", NoReq, denied) /\ UNCHANGED users
          ELSE \E id \in UserIdInputs, username \in Usernames, password \in Passwords,
                  email \in Emails, role \in Roles :
            LET currentUser == Claims(cookie)
                data == [username |-> username, password |-> password,
                         email |-> email, role |-> role]
                req == [id |-> id, currentUser |-> currentUser, data |-> data]
                refused == ensureOwnerOrAdmin(currentUser, id)
                invalid == UpdateUserValidate(id, data, currentUser)
            IN IF refused # NoResp
               THEN Finish(p, "updateUser", req, refused) /\ UNCHANGED users
               ELSE IF invalid # NoMsg
               THEN Finish(p, "updateUser", req, UpdateUserError(invalid)) /\ UNCHANGED users
               ELSE /\ ~UserLocked(id)
                    /\ IF id \notin DOMAIN users
                       THEN /\ Finish(p, "updateUser", req, UpdateUserError(Msg("User not found", <<>>)))
                            /\ UNCHANGED users
                       ELSE IF email # Undef /\ UsersByEmail(email.v) \ {id} # {}
                       THEN /\ Finish(p, "updateUser", req, UpdateUserError(ErDup))
                            /\ UNCHANGED users
                       ELSE /\ users' = [users EXCEPT ![id] = UpdatedUser(@, data)]
                            /\ Finish(p, "updateUser", req, Ok(200, 0))
  /\ UNCHANGED <<nextUserId, dishes, nextDishId, files, orders, nextOrderId, order_items,
                 refresh_tokens, issued, clock, production, leaked, txOpen, past>>

(* ------------------------------ getAllUsers ---------------------------- *)

\* GET /users
GetAllUsers(p) ==
  /\ pc[p] = "idle"
  /\ \E cookie \in CookieInputs :
       LET denied == authenticateToken(cookie)
           refused == authorizeRoles(Claims(cookie), {"admin"})
           req == [currentUser |-> Claims(cookie)]
       IN IF denied # NoResp THEN Finish(p, "getAllUsers", NoReq, denied)
          ELSE IF refused # NoResp THEN Finish(p, "getAllUsers", req, refused)
          ELSE Finish(p, "getAllUsers", req,
                      [status |-> 200, error |-> NoMsg, thrown |-> NoMsg, id |-> 0,
                       cookies |-> {}, rows |-> users])
  /\ UNCHANGED <<dbVars, issued, clock, production, leaked, txOpen, past>>

(* ----------------------------- health check --------------------------- *)

\* GET /health up to the ping: getConnection hands out a pooled connection
\* (and waits while the pool has none), or rejects when no connection to
\* the server can be made
HealthStart(p) ==
  /\ pc[p] = "idle"
  /\ \E got \in {"connection", "rejected"} :
       IF got = "rejected"
       THEN Finish(p, "health", NoReq, Resp(503, ErIo, NoMsg, 0, {}))
       ELSE /\ CheckedOut < PoolLimit
            /\ Goto(p, "hc_ping", [op |-> "health"])
  /\ UNCHANGED <<dbVars, issued, clock, production, leaked, txOpen, past>>

\* connection.ping(), then release() and 200; a ping that throws skips the
\* release and is answered 503. The ping fails either with the connection
\* lost, which the pool then drops, or with an error of the server on a
\* connection that stays open and checked out
HealthPing(p) ==
  /\ pc[p] = "hc_ping"
  /\ \E ping \in {"up", "lost", "error"} :
       /\ Finish(p, "health", NoReq,
                 IF ping = "up" THEN Ok(200, 0)
                 ELSE IF ping = "lost" THEN Resp(503, ErIo, NoMsg, 0, {})
                 ELSE Resp(503, Msg("Server shutdown in progress", <<>>), NoMsg, 0, {}))
       /\ leaked' = IF ping = "error" THEN leaked + 1 ELSE leaked
  /\ UNCHANGED <<dbVars, issued, clock, production, txOpen, past>>

(* -------------------------------- clock -------------------------------- *)

Tick ==
  /\ clock < MaxClock
  /\ clock' = clock + 1
  /\ resp' = Silent
  /\ UNCHANGED <<dbVars, issued, production, leaked, pc, call, conn, txOpen, past>>

(* --------------------------- specifications ---------------------------- *)

\* order creation against dish deletion
NextCreate ==
  \/ \E p \in Procs : CreateOrderStart(p, ItemsInputs, {Undef}, {Undef})
  \/ \E p \in Procs : CreateOrderCheck(p)
  \/ \E p \in Procs : CreateOrderInsertOrder(p)
  \/ \E p \in Procs : CreateOrderInsertItems(p)
  \/ \E p \in Procs : CreateOrderCommit(p)
  \/ \E p \in Procs : CreateOrderRollback(p)
  \/ \E p \in Procs : DeleteDishStart(p)
  \/ \E p \in Procs : DeleteDishSelect(p)
  \/ \E p \in Procs : DeleteDishDelete(p)
  \/ \E p \in Procs : DeleteDishUnlink(p)
  \/ \E p \in Procs : DeleteDishCommit(p)

SpecCreate == Init /\ [][NextCreate]_vars

ValidItems(d) == [present |-> TRUE, list |-> <<[dishID |-> d, quantity |-> [t |-> "num", v |-> 2]]>>]

\* user deletion against order creation and order updates
NextDeleteUser ==
  \/ \E p \in Procs : DeleteUserCheck(p)
  \/ \E p \in Procs : DeleteUserDelete(p)
  \/ \E p \in Procs : CreateOrderStart(p, {ValidItems(1), ValidItems(3)}, {Undef}, {Undef})
  \/ \E p \in Procs : CreateOrderCheck(p)
  \/ \E p \in Procs : CreateOrderInsertOrder(p)
  \/ \E p \in Procs : CreateOrderInsertItems(p)
  \/ \E p \in Procs : CreateOrderCommit(p)
  \/ \E p \in Procs : CreateOrderRollback(p)
  \/ \E p \in Procs : UpdateOrder(p, CookieInputs, {Val("ordered"), Val("completed")}, {Undef})

SpecDeleteUser == Init /\ [][NextDeleteUser]_vars

\* the cookie values a client of user u may present
CookiesOf(u) == {t \in CookieInputs : t.userId \in {0, u}}

\* order updates as time passes, over the first order placed
NextUpdate ==
  \/ nextOrderId = 1 /\ CreateOrderStart("r1", {ValidItems(1)}, {Undef}, {Undef})
  \/ \E p \in Procs : CreateOrderCheck(p)
  \/ \E p \in Procs : CreateOrderInsertOrder(p)
  \/ \E p \in Procs : CreateOrderInsertItems(p)
  \/ \E p \in Procs : CreateOrderCommit(p)
  \/ \E p \in Procs : CreateOrderRollback(p)
  \/ \E p \in Procs : UpdateOrder(p, CookiesOf(1), StatusInputs, PaidInputs)
  \/ Tick

SpecUpdate == Init /\ [][NextUpdate]_vars

\* order updates whose body names the status by its word or by its index
NextStamps ==
  \/ nextOrderId = 1 /\ CreateOrderStart("r1", {ValidItems(1)}, {Undef}, {Undef})
  \/ \E p \in Procs : CreateOrderCheck(p)
  \/ \E p \in Procs : CreateOrderInsertOrder(p)
  \/ \E p \in Procs : CreateOrderInsertItems(p)
  \/ \E p \in Procs : CreateOrderCommit(p)
  \/ \E p \in Procs : CreateOrderRollback(p)
  \/ \E p \in Procs : UpdateOrder(p, CookiesOf(1), {Val("ordered"), Val("processing"), Val("2"),
                                                     Val("completed")}, {Undef})
  \/ Tick

SpecStamps == Init /\ [][NextStamps]_vars

\* sessions: login, refresh and logout as time passes
NextAuth ==
  \/ \E p \in Procs : LoginSelect(p, EmailInputs, PasswordInputs)
  \/ \E p \in Procs : LoginInsert(p)
  \/ \E p \in Procs : RefreshToken(p, CookieInputs)
  \/ \E p \in Procs : Logout(p, CookieInputs)
  \/ Tick

SpecAuth == Init /\ [][NextAuth]_vars

\* accounts: registration and profile updates
NextUsers ==
  \/ \E p \in Procs : CreateUserCheck(p, UsernameInputs, EmailInputs, PasswordInputs, {Undef})
  \/ \E p \in Procs : CreateUserInsert(p)
  \/ \E p \in Procs : UpdateUser(p, UsernameInputs, {Undef}, {Undef, Val("bad")}, RoleInputs)

SpecUsers == Init /\ [][NextUsers]_vars

\* the catalog: dishes created, updated, read and deleted, with and without
\* a name, a price and an image in the request
NextDish ==
  \/ \E p \in Procs : CreateDish(p, {Undef, Val("tonkotsu")}, {Undef, Val("9.5"), Val("abc")},
                                   {Undef, Val("uploads/image-1.png")})
  \/ \E p \in Procs : UpdateDish(p, {Undef, Val("tonkotsu")}, {Undef, Val("9.5"), Val("abc")},
                                   {Undef, Val("uploads/image-1.png")})
  \/ \E p \in Procs : GetDishById(p)
  \/ \E p \in Procs : DeleteDishStart(p)
  \/ \E p \in Procs : DeleteDishSelect(p)
  \/ \E p \in Procs : DeleteDishDelete(p)
  \/ \E p \in Procs : DeleteDishUnlink(p)
  \/ \E p \in Procs : DeleteDishCommit(p)
  \/ Tick

SpecDish == Init /\ [][NextDish]_vars

\* the operations that hold a pooled connection across several statements,
\* with updateDish between them
NextPool ==
  \/ \E p \in Procs : CreateOrderStart(p, {ValidItems(1), ValidItems(3)}, {Undef}, {Undef})
  \/ \E p \in Procs : CreateOrderCheck(p)
  \/ \E p \in Procs : CreateOrderInsertOrder(p)
  \/ \E p \in Procs : CreateOrderInsertItems(p)
  \/ \E p \in Procs : CreateOrderCommit(p)
  \/ \E p \in Procs : CreateOrderRollback(p)
  \/ \E p \in Procs : UpdateDish(p, {Val("tonkotsu")}, {Undef, Val("abc")}, {Undef})
  \/ \E p \in Procs : DeleteDishStart(p)
  \/ \E p \in Procs : DeleteDishSelect(p)
  \/ \E p \in Procs : DeleteDishDelete(p)
  \/ \E p \in Procs : DeleteDishUnlink(p)
  \/ \E p \in Procs : DeleteDishCommit(p)

SpecPool == Init /\ [][NextPool]_vars

\* orders placed by every caller, with and without a user identifier in
\* the body
NextPlace ==
  \/ \E p \in Procs : CreateOrderStart(p, {ValidItems(1)}, {Undef}, {Undef, Val(1), Val(2)})
  \/ \E p \in Procs : CreateOrderCheck(p)
  \/ \E p \in Procs : CreateOrderInsertOrder(p)
  \/ \E p \in Procs : CreateOrderInsertItems(p)
  \/ \E p \in Procs : CreateOrderCommit(p)
  \/ \E p \in Procs : CreateOrderRollback(p)

SpecPlace == Init /\ [][NextPlace]_vars

\* the sessions of user 2 against the deletion of accounts
NextSession ==
  \/ \E p \in Procs : LoginSelect(p, {Val("b@x.io")}, {Val("pw2")})
  \/ \E p \in Procs : LoginInsert(p)
  \/ \E p \in Procs : RefreshToken(p, {t \in CookieInputs : t.kind # "access"})
  \/ \E p \in Procs : Logout(p, {t \in CookieInputs : t.kind # "access"})
  \/ \E p \in Procs : DeleteUserCheck(p)
  \/ \E p \in Procs : DeleteUserDelete(p)
  \/ Tick

SpecSession == Init /\ [][NextSession]_vars

\* the routes of /users behind ensureOwnerOrAdmin and authorizeRoles
NextAccess ==
  \/ \E p \in Procs : DeleteUserCheck(p)
  \/ \E p \in Procs : DeleteUserDelete(p)
  \/ \E p \in Procs : UpdateUser(p, {Undef, Val("zed")}, {Undef}, {Undef}, {Undef})
  \/ \E p \in Procs : GetAllUsers(p)
  \/ Tick

SpecAccess == Init /\ [][NextAccess]_vars

\* orders placed with failing statements, in either environment
SpecErrors == InitAnyEnv /\ [][NextPlace]_vars

\* public registrations alone, with and without a role in the body
NextRegister ==
  \/ \E p \in Procs : CreateUserCheck(p, {Val("zed")}, {Val("a@x.io"), Val("c@x.io"), Val("d@x.io")},
                                        {Val("pw9")}, RoleInputs)
  \/ \E p \in Procs : CreateUserInsert(p)

SpecRegister == Init /\ [][NextRegister]_vars

\* health checks against a database that answers, fails or is gone
NextHealth ==
  \/ \E p \in Procs : HealthStart(p)
  \/ \E p \in Procs : HealthPing(p)

SpecHealth == Init /\ [][NextHealth]_vars

\* the sessions of user 2 while the admin changes that user's email and role
NextClaims ==
  \/ \E p \in Procs : LoginSelect(p, {Val("b@x.io")}, {Val("pw2")})
  \/ \E p \in Procs : LoginInsert(p)
  \/ \E p \in Procs : RefreshToken(p, {t \in CookieInputs : t.kind # "access"})
  \/ \E p \in Procs : UpdateUser(p, {Undef}, {Undef}, {Undef, Val("c@x.io")}, {Undef, Val("admin")})
  \/ Tick

SpecClaims == Init /\ [][NextClaims]_vars

\* the sessions of the admin, logged out while their access tokens are used
NextLogout ==
  \/ \E p \in Procs : LoginSelect(p, {Val("a@x.io")}, {Val("pw1")})
  \/ \E p \in Procs : LoginInsert(p)
  \/ \E p \in Procs : Logout(p, {t \in CookieInputs : t.kind # "access"})
  \/ \E p \in Procs : GetAllUsers(p)
  \/ Tick

SpecLogout == Init /\ [][NextLogout]_vars

(* ------------------------ claims: order creation ----------------------- *)

ItemsOf(o, items) == {r \in items : r.orderID = o}

C5_MissingIdsNamedExactly ==
  [][\A p \in Procs :
       pc[p] = "co_check" /\ pc'[p] # "co_check" =>
         LET requested == {call[p].items[i].dishID : i \in 1..Len(call[p].items)}
             absent == requested \ DOMAIN dishes
             ids == resp'.r.error.ids
         IN IF absent = {}
            THEN pc'[p] = "co_order"
            ELSE /\ pc'[p] = "idle"
                 /\ resp'.r.status = 400
                 /\ resp'.r.error.text = "Dishes not found: "
                 /\ Range(ids) = absent
                 /\ Len(ids) = Cardinality(absent)]_vars

\* a createOrder naming two absent dishes was answered
C5_Witness ==
  /\ resp.op = "createOrder"
  /\ resp.r.error.text = "Dishes not found: "
  /\ Len(resp.r.error.ids) = 2

Rejections ==
  {"Order must contain at least one item", "Invalid quantity for dishID ", "Dishes not found: "}

\* C6: no step of a createOrder call that ends rejected for its items, a
\* quantity or a missing dish writes to orders or order_items, and the
\* rejected call leaves no transaction open on its connection.
C6_RejectedWritesNothing ==
  [][/\ \A p \in Procs :
          pc[p] = "idle" /\ pc'[p] = "co_check" =>
            /\ orders' = orders
            /\ order_items' = order_items
            /\ ~txOpen'[p]
     /\ resp'.op = "createOrder" /\ resp'.r.thrown.text \in Rejections =>
          /\ resp'.r.status = 400
          /\ orders' = orders
          /\ order_items' = order_items
          /\ nextOrderId' = nextOrderId
          /\ \A p \in Procs : pc'[p] = "idle" => ~txOpen'[p]]_vars

\* a createOrder was rejected for a missing dish while an order exists
C6_Witness ==
  /\ resp.op = "createOrder"
  /\ resp.r.thrown.text = "Dishes not found: "
  /\ DOMAIN orders # {}
  /\ order_items # {}

(* ------------------------ claims: dish deletion ------------------------ *)

\* C2: no step of a deleteDish on a dish that order_items rows reference
\* removes the dish row, its image file or an order_items row, and the call
\* ends with the conflict error.
C2_ReferencedDishKept ==
  [][\A p \in Procs :
       /\ call[p].op = "deleteDish"
       /\ \E r \in order_items : r.dishID = call[p].dishId
       /\ pc'[p] # pc[p]
       => /\ dishes' = dishes
          /\ files' = files
          /\ order_items' = order_items
          /\ pc'[p] = "idle" =>
               /\ resp'.r.status = 400
               /\ resp'.r.thrown.text = "Cannot delete dish that is part of existing orders."]_vars

(* ------------------------ claims: user deletion ------------------------ *)

\* C4: under any interleaving of deleteUser, createOrder and updateOrder, a
\* users row disappears only in a step before which its user owns no order
\* whose status is not 'completed', and no such order disappears with it.
C4_DeletedUserOwnsNoActiveOrder ==
  [][\A u \in DOMAIN users \ DOMAIN users' :
       /\ ActiveOrders(u) = {}
       /\ \A o \in DOMAIN orders \ DOMAIN orders' : orders[o].Status = "completed"]_vars

(* --------------------------- claims: sessions -------------------------- *)

RevokedText == "Refresh Token Not Found (Revoked)"

\* a refresh step that fails as revoked and issues nothing
RefusedAsRevoked ==
  /\ resp'.r.status = 403
  /\ resp'.r.thrown.text = RevokedText
  /\ resp'.r.cookies = {}
  /\ issued' = issued

\* C3: once logout(t) has deleted the row of refresh token t, every later
\* refreshAccessToken(t) made while no row of t is stored fails with the
\* revoked error and issues no access token, although the signature and
\* the expiry of t are valid.
C3_RevokedRefreshFails ==
  [][/\ resp'.op = "refresh"
     /\ Revoked(resp'.req.token) \in past
     /\ Verify(resp'.req.token, "refresh", clock)
     /\ ~\E r \in refresh_tokens : r.token = resp'.req.token
     => RefusedAsRevoked]_vars

\* a refresh with a logged-out token of valid signature and expiry was refused
C3_Witness ==
  /\ resp.op = "refresh"
  /\ Revoked(resp.req.token) \in past
  /\ Verify(resp.req.token, "refresh", clock)
  /\ resp.r.thrown.text = RevokedText

\* C3 as stated: once logout(t) has deleted the row of t, every later
\* refreshAccessToken(t) fails with the revoked error.
C3_EveryLaterRefreshFails ==
  [][/\ resp'.op = "refresh"
     /\ Revoked(resp'.req.token) \in past
     /\ Verify(resp'.req.token, "refresh", clock)
     => RefusedAsRevoked]_vars

BadCredentials(req) ==
  /\ req.email # Undef
  /\ req.password # Undef
  /\ isValidEmail(req.email.v)
  /\ \A u \in UsersByEmail(req.email.v) : ~Compare(req.password.v, users[u].password)

\* C7: login with a registered email and a wrong password and login with a
\* well-formed email no user holds are answered by one and the same
\* response (401, 'Invalid email or password', no cookie), store no
\* refresh-token row and sign no token.
C7_LoginFailuresIndistinguishable ==
  [][/\ resp'.op = "login" /\ (\A p \in Procs : pc[p] = pc'[p]) /\ BadCredentials(resp'.req)
        => /\ resp'.r = Fail(401, Msg("Invalid email or password", <<>>))
           /\ refresh_tokens' = refresh_tokens
           /\ issued' = issued
     /\ \A p \in Procs :
          pc[p] = "idle" /\ pc'[p] = "li_insert" => ~BadCredentials(call'[p].req)]_vars

\* a login with an email no user holds was refused
C7_Witness ==
  /\ resp.op = "login"
  /\ resp.r.status = 401
  /\ resp.req.email = Val("c@x.io")
  /\ UsersByEmail("c@x.io") = {}

(* --------------------------- claims: accounts -------------------------- *)

Complete(req) ==
  /\ req.username # Undef
  /\ req.password # Undef
  /\ req.email # Undef
  /\ isValidEmail(req.email.v)

\* C8: createUser with an email a user holds fails with 'Email already
\* exists' and inserts no row; createUser with an email no user holds
\* inserts exactly one row, carrying that email, and answers 201 - also
\* after an earlier createUser was refused.
C8_DuplicateEmailRefused ==
  [][/\ resp'.op = "createUser" /\ (\A p \in Procs : pc[p] = pc'[p]) /\ Complete(resp'.req)
        => /\ UsersByEmail(resp'.req.email.v) # {}
           /\ resp'.r = Fail(400, Msg("Email already exists", <<>>))
           /\ users' = users
           /\ nextUserId' = nextUserId
     /\ \A p \in Procs :
          /\ pc[p] = "idle" /\ pc'[p] = "cu_insert"
               => UsersByEmail(call'[p].req.email.v) = {} /\ users' = users
          /\ pc[p] = "cu_insert" /\ pc'[p] = "idle" /\ UsersByEmail(call[p].req.email.v) = {}
               => /\ resp'.r.status = 201
                  /\ resp'.r.id \notin DOMAIN users
                  /\ DOMAIN users' = DOMAIN users \cup {resp'.r.id}
                  /\ users'[resp'.r.id].email = call[p].req.email.v
                  /\ \A u \in DOMAIN users : users'[u] = users[u]]_vars

\* a createUser succeeded after a createUser had been refused for its email
C8_Witness ==
  /\ Refused("a@x.io") \in past
  /\ resp.op = "createUser"
  /\ resp.r.status = 201
  /\ users[resp.r.id].email = "c@x.io"

AccessDeniedTexts ==
  { "Access denied: Only admins can change roles",
    "Access denied: You cannot change your own role",
    "Access denied. You can only modify your own account." }

\* C9: an updateUser carrying a role field, made by an authenticated
\* principal that is not an admin or that is the target, is answered 403
\* with an access-denied error and changes no field of any user.
C9_RoleChangeNeedsOtherAdmin ==
  [][/\ resp'.op = "updateUser"
     /\ resp'.req # NoReq
     /\ resp'.req.data.role # Undef
     /\ ~(resp'.req.currentUser.role = "admin" /\ resp'.req.currentUser.userId # resp'.req.id)
     => /\ resp'.r.status = 403
        /\ resp'.r.error.text \in AccessDeniedTexts
        /\ users' = users]_vars

\* an admin's updateUser of its own role and username was refused
C9_Witness ==
  /\ resp.op = "updateUser"
  /\ resp.req # NoReq
  /\ resp.req.data.role # Undef
  /\ resp.req.data.username # Undef
  /\ resp.req.currentUser.role = "admin"
  /\ resp.req.currentUser.userId = resp.req.id
  /\ resp.r.status = 403

(* ------------------------- claims: order updates ----------------------- *)

Stamped == {"processing", "delivering", "completed"}

TimestampOf(row, s) ==
  CASE s = "processing" -> row.processing_at
    [] s = "delivering" -> row.Delivering_at
    [] s = "completed" -> row.Completed_at

\* C10: an updateOrder of an existing order with Status s in {processing,
\* delivering, completed} sets Status to s and the timestamp of s to a
\* non-null value, leaves Paid as it was when the request omits it, and
\* leaves the other timestamps, the owner, the order's items and every
\* other order as they were.
C10_StatusUpdateFrame ==
  [][/\ resp'.op = "updateOrder"
     /\ resp'.req # NoReq
     /\ resp'.req.Status # Undef
     /\ resp'.req.Status.v \in Stamped
     => LET id == resp'.req.id
            s == resp'.req.Status.v
        IN /\ id \in DOMAIN orders /\ id \in DOMAIN orders'
           /\ orders'[id].Status = s
           /\ TimestampOf(orders'[id], s) # NULL
           /\ resp'.req.Paid = Undef => orders'[id].Paid = orders[id].Paid
           /\ \A t \in Stamped \ {s} : TimestampOf(orders'[id], t) = TimestampOf(orders[id], t)
           /\ orders'[id].UserID = orders[id].UserID
           /\ order_items' = order_items
           /\ \A o \in DOMAIN orders \ {id} : orders'[o] = orders[o]
           /\ DOMAIN orders' = DOMAIN orders]_vars

\* an order processed earlier was set to delivering by a request without Paid
C10_Witness ==
  /\ resp.op = "updateOrder"
  /\ resp.req # NoReq
  /\ resp.req.Status = Val("delivering")
  /\ resp.req.Paid = Undef
  /\ orders[resp.req.id].processing_at # NULL
  /\ orders[resp.req.id].processing_at # orders[resp.req.id].Delivering_at

(* ------------------------------- C11..C13 ------------------------------ *)

\* C11: when deleteDish's removal of the image file fails for a reason other
\* than the file being missing, the transaction is rolled back, the dish row
\* is still present and the request raises the file-deletion error; the
\* handler goes on to COMMIT only with the file removed or missing, and when
\* the file was merely missing the commit that succeeds removes the row.
C11_UnlinkFailureRollsBack ==
  [][\A p \in Procs :
       /\ pc[p] = "dd_unlink" /\ pc'[p] # "dd_unlink"
          => LET id == call[p].dishId
                 path == call[p].imagePath.v
             IN IF pc'[p] = "dd_commit"
                THEN /\ path \notin files'
                     /\ resp' = Silent
                     /\ txOpen'[p]
                ELSE /\ path \in files /\ files' = files
                     /\ dishes' = dishes /\ id \in DOMAIN dishes'
                     /\ ~txOpen'[p] /\ ~conn'[p]
                     /\ resp'.op = "deleteDish"
                     /\ resp'.r.status = 500
                     /\ resp'.r.thrown.text = "Failed to delete associated image file"
       /\ (/\ pc[p] = "dd_commit" /\ pc'[p] = "idle"
           /\ call[p].imagePath # NULL
           /\ resp'.r.status = 200)
          => /\ call[p].imagePath.v \notin files'
             /\ call[p].dishId \notin DOMAIN dishes']_vars

\* the removal of the image of dish 1 failed: the row and the file are there
C11_Witness ==
  /\ resp.op = "deleteDish"
  /\ resp.r.thrown.text = "Failed to delete associated image file"
  /\ 1 \in DOMAIN dishes
  /\ dishes[1].Image = Val("uploads/d1.png")
  /\ "uploads/d1.png" \in files
  /\ \A p \in Procs : ~txOpen[p]

\* C12 (as stated): in no reachable state is the image file of a dish removed
\* while the dish row still exists.
C12_NoRowWithoutItsFile ==
  \A d \in DOMAIN dishes : dishes[d].Image # NULL => dishes[d].Image.v \in files

\* C13: a deleteDish that answers 200 has removed the dish row and its
\* image file and left every other dish row as it was; a removed DishID
\* never comes back; and getDishById answers 404 exactly for the ids with
\* no row.
C13_DeleteRemovesOnlyThatDish ==
  [][/\ \A p \in Procs :
          (/\ pc[p] = "dd_commit" /\ pc'[p] = "idle"
           /\ resp'.r.status = 200)
          => LET id == call[p].dishId
             IN /\ id \in DOMAIN dishes
                /\ id \notin DOMAIN dishes'
                /\ call[p].imagePath # NULL => call[p].imagePath.v \notin files'
                /\ DOMAIN dishes' = DOMAIN dishes \ {id}
                /\ \A d \in DOMAIN dishes' : dishes'[d] = dishes[d]
     /\ \A d \in 1..MaxDishId :
          d < nextDishId /\ d \notin DOMAIN dishes => d \notin DOMAIN dishes'
     /\ resp'.op = "getDishById"
          => /\ resp'.r.status = 404 <=> resp'.req.id \notin DOMAIN dishes'
             /\ resp'.r.status = 200 <=> resp'.req.id \in DOMAIN dishes'
             /\ dishes' = dishes /\ files' = files]_vars

\* dish 1 and its image are gone, dish 2 is as seeded, and a later
\* getDishById of dish 1 was answered 404
C13_Witness ==
  /\ resp.op = "getDishById"
  /\ resp.req.id = 1
  /\ resp.r.status = 404
  /\ resp.r.error.text = "Dish not found"
  /\ 1 \notin DOMAIN dishes
  /\ "uploads/d1.png" \notin files
  /\ 2 \in DOMAIN dishes /\ dishes[2] = SeedDishes[2]

(* ------------------------------- C14..C19 ------------------------------ *)

DishWrites == {"createDish", "updateDish", "deleteDish"}

\* C16: createDish, updateDish and deleteDish go past the middleware only
\* with a valid access token whose role is 'admin': no token is answered
\* 401, an invalid or expired token 403, a valid token of another role 403,
\* each with the dishes table and the image files unchanged; every step
\* that changes a dish row or a file belongs to a request let through.
C16_DishWritesNeedAdmin ==
  [][/\ resp'.op \in DishWrites /\ resp'.req # NoReq
        => LET c == resp'.req.cookie
               valid == Verify(c, "access", clock)
           IN /\ c = NoToken => resp'.r.status = 401
              /\ c # NoToken /\ ~valid => resp'.r.status = 403
              /\ valid /\ c.role # "admin" => resp'.r.status = 403
              /\ ~(valid /\ c.role = "admin")
                   => /\ dishes' = dishes /\ files' = files /\ nextDishId' = nextDishId
                      /\ resp'.r.thrown = NoMsg
              /\ valid /\ c.role = "admin" => resp'.r.status \notin {401, 403}
     /\ \A p \in Procs :
          pc[p] = "idle" /\ pc'[p] = "dd_select"
          => Verify(call'[p].cookie, "access", clock) /\ call'[p].cookie.role = "admin"
     /\ dishes' # dishes \/ files' # files
          => \/ \E p \in Procs : pc[p] \in {"dd_unlink", "dd_commit"} /\ pc'[p] # pc[p]
             \/ /\ resp'.op \in {"createDish", "updateDish"}
                /\ Verify(resp'.req.cookie, "access", clock)
                /\ resp'.req.cookie.role = "admin"]_vars

\* after the admin created a dish, an updateDish with the valid token of a
\* user was answered 403
C16_Witness ==
  /\ resp.op = "updateDish"
  /\ resp.r.status = 403
  /\ resp.req.cookie.role = "user"
  /\ Verify(resp.req.cookie, "access", clock)
  /\ 3 \in DOMAIN dishes
  /\ dishes[3].Name = "tonkotsu"

\* C18: every order row created by POST /orders has as UserID the userId
\* claim of the caller's token, whatever user identifier the body carries.
C18_OrderOwnedByCaller ==
  [][\A o \in DOMAIN orders' \ DOMAIN orders :
       /\ resp'.op = "createOrder"
       /\ resp'.req # NoReq
       /\ orders'[o].UserID = resp'.req.caller.userId]_vars

\* user 2 placed an order whose body named user 1: the row belongs to user 2
C18_Witness ==
  /\ resp.op = "createOrder"
  /\ resp.r.status = 201
  /\ resp.req.caller.userId = 2
  /\ resp.req.userID = Val(1)
  /\ orders[resp.r.id].UserID = 2

\* C19 (as stated): a request whose order was committed reports 201, whether
\* or not the notification could be published.
C19_CommittedOrderAnswered201 ==
  [][DOMAIN orders' # DOMAIN orders => resp'.op = "createOrder" /\ resp'.r.status = 201]_vars

\* C15: refreshAccessToken leaves every refresh-token row as it is; a
\* refresh with a token of valid signature and expiry whose row is stored
\* succeeds with a fresh access token, however often it was exchanged
\* before; and a row goes away only by the logout of its token or by the
\* deletion of its user.
C15_RefreshKeepsRows ==
  [][/\ resp'.op = "refresh"
        => /\ refresh_tokens' = refresh_tokens
           /\ (/\ Verify(resp'.req.token, "refresh", clock)
               /\ \E r \in refresh_tokens : r.token = resp'.req.token)
              => /\ resp'.r.status = 200
                 /\ resp'.r.cookies =
                      {Sign("access", resp'.req.token.userId, resp'.req.token.email,
                            resp'.req.token.role, clock)}
     /\ \A r \in refresh_tokens \ refresh_tokens' :
          \/ resp'.op = "logout" /\ resp'.req.token = r.token
          \/ resp'.op = "deleteUser" /\ r.userID \notin DOMAIN users']_vars

\* the only refresh token of its user, stored at second 0, was exchanged at
\* second 1 and again at second 2
C15_Witness ==
  /\ resp.op = "refresh"
  /\ resp.r.status = 200
  /\ resp.req.token.iat = 0
  /\ clock = 2
  /\ \A t \in issued :
       t.kind = "refresh" /\ t.userId = resp.req.token.userId => t = resp.req.token
  /\ \E a \in issued : a.kind = "access" /\ a.userId = resp.req.token.userId /\ a.iat = 1
  /\ \E r \in refresh_tokens : r.token = resp.req.token

\* C15 (as stated): a refresh token that was stored, has not expired and
\* was not deleted by logout is exchanged successfully.
C15_ExchangeableUntilExpiryOrLogout ==
  [][/\ resp'.op = "refresh"
     /\ resp'.req.token \in issued
     /\ Verify(resp'.req.token, "refresh", clock)
     /\ Revoked(resp'.req.token) \notin past
     => resp'.r.status = 200]_vars

\* the caller is an admin or the owner of the account
OwnerOrAdmin(user, id) == user.role = "admin" \/ user.userId = id

C20_UnclassifiedErrorIs500 ==
  [][/\ resp'.r.thrown \in {ErIo, ErEmit} => resp'.r.status = 500
     /\ resp'.r.status = 500
        => /\ resp'.r.thrown # NoMsg
           /\ production => /\ resp'.r.error = Msg("Internal Server Error", <<>>)
                            /\ resp'.r.error # resp'.r.thrown
           /\ ~production => resp'.r.error = resp'.r.thrown]_vars

\* in production a failed statement of createOrder was answered 500 with
\* the generic message
C20_Witness ==
  /\ production
  /\ resp.op = "createOrder"
  /\ resp.r.status = 500
  /\ resp.r.thrown = ErIo
  /\ resp.r.error.text = "Internal Server Error"

\* C20 (as stated): in any environment the body of a 500 carries a generic
\* message and not the message of the error.
C20_GenericMessageInAnyEnvironment ==
  [][resp'.r.status = 500
     => /\ resp'.r.error = Msg("Internal Server Error", <<>>)
        /\ resp'.r.error # resp'.r.thrown]_vars

(* ------------------------------- C21..C30 ------------------------------ *)

\* C21: updateOrder refuses no status change: its only failures are the
\* middleware's, 'No fields provided for update' and 'Order not found', and
\* an update that carries a status and finds the order is answered 200 with
\* the order in that status, whatever status it had.
C21_AnyTransitionAccepted ==
  [][resp'.op = "updateOrder"
     => /\ resp'.r.status \in {200, 400, 401, 403, 404}
        /\ resp'.r.status = 400 => resp'.r.error.text = "No fields provided for update"
        /\ resp'.r.status = 404 => resp'.r.error.text = "Order not found"
        /\ resp'.r.status \in {401, 403} => resp'.r.thrown = NoMsg
        /\ resp'.r.status = 200 /\ resp'.req.Status # Undef
           => orders'[resp'.req.id].Status = resp'.req.Status.v]_vars

\* an order that went from 'ordered' straight to 'completed' was moved
\* back to 'ordered'
C21_Witness ==
  /\ resp.op = "updateOrder"
  /\ resp.r.status = 200
  /\ resp.req.Status = Val("ordered")
  /\ orders[resp.req.id].Status = "ordered"
  /\ orders[resp.req.id].Completed_at # NULL
  /\ orders[resp.req.id].processing_at = NULL
  /\ orders[resp.req.id].Delivering_at = NULL

\* C22: every user row inserted by createUser has role 'user', whatever
\* role the body carries: after any sequence of registrations the only
\* admins are the seeded ones.
C22_RegisteredUsersAreUsers ==
  /\ \A u \in DOMAIN users : u \notin DOMAIN SeedUsers => users[u].role = "user"
  /\ \A u \in DOMAIN users : users[u].role = "admin" => u \in DOMAIN SeedUsers

\* a registration whose body asked for role admin created a user of role
\* 'user'
C22_Witness ==
  /\ resp.op = "createUser"
  /\ resp.r.status = 201
  /\ resp.req.role = Val("admin")
  /\ users[resp.r.id].role = "user"

\* C23 (as stated): a createUser whose email was inserted by another
\* request between its existence check and its INSERT creates no second
\* row and fails with 'Email already exists'.
C23_RaceLoserGetsEmailExists ==
  [][\A p \in Procs :
       (/\ pc[p] = "cu_insert" /\ pc'[p] = "idle"
        /\ UsersByEmail(call[p].req.email.v) # {})
       => /\ users' = users
          /\ resp'.r.status = 400
          /\ resp'.r.error.text = "Email already exists"]_vars

\* C24 (as stated): under every interleaving of createOrder and deleteDish
\* every committed order_items row references a dish row that exists, and
\* no order that stays committed loses an item.
C24_NoItemLostToDishDeletion ==
  [][/\ \A r \in order_items' : r.dishID \in DOMAIN dishes'
     /\ \A r \in order_items : r.orderID \in DOMAIN orders' => r \in order_items']_vars

\* C29 (as stated): in every reachable state every persisted order has at
\* least one order_items row.
C29_EveryOrderHasAnItem ==
  \A o \in DOMAIN orders : \E r \in order_items : r.orderID = o

\* the dish ids of the items of a createOrder call, in order
DishIdsOf(c) == [i \in 1..Len(c.items) |-> c.items[i].dishID]

\* C30: a createOrder whose items name an existing dish more than once
\* passes the existence check, fails on the batched insert of the items
\* (with the duplicate-key error unless the statement itself is lost), is
\* rolled back, and leaves neither its order row nor any order_items row.
C30_RepeatedDishRollsBack ==
  [][\A p \in Procs :
       (/\ call[p].op = "createOrder"
        /\ Distinct(DishIdsOf(call[p])) # DishIdsOf(call[p])
        /\ Range(DishIdsOf(call[p])) \subseteq DOMAIN dishes
        /\ pc'[p] # pc[p])
       => /\ pc[p] = "co_check" => pc'[p] = "co_order"
          /\ pc[p] = "co_items"
             => /\ pc'[p] = "co_rollback"
                /\ call'[p].err \in {ErDup, ErIo}
          /\ pc[p] # "co_commit" /\ pc'[p] # "co_commit"
          /\ orders' = orders /\ order_items' = order_items
          /\ pc[p] = "co_rollback"
             => /\ call[p].orderId \notin DOMAIN orders'
                /\ \A r \in order_items' : r.orderID # call[p].orderId
                /\ resp'.r.thrown = call[p].err
                /\ ~txOpen'[p]]_vars

\* an order naming dish 1 twice failed on the duplicate key: an OrderID was
\* used up and no row is left
C30_Witness ==
  /\ resp.op = "createOrder"
  /\ resp.r.thrown = ErDup
  /\ nextOrderId = 2
  /\ orders = << >>
  /\ order_items = {}

\* C25 (as stated): the health check has released the connection it took
\* on every way out: the connections checked out are those of the requests
\* in flight, whatever the pings answered.
C25_HealthCheckReleases ==
  CheckedOut = Cardinality({p \in Procs : pc[p] # "idle"})

\* C26 (as stated): in every reachable state an order in status
\* 'processing', 'delivering' or 'completed' has the timestamp of that
\* status.
C26_StatusHasItsTimestamp ==
  \A o \in DOMAIN orders :
    orders[o].Status \in Stamped => TimestampOf(orders[o], orders[o].Status) # NULL

\* C27: the access token that refreshAccessToken issues carries exactly the
\* userId, email and role of the refresh token it was exchanged for,
\* whatever the user's row holds by then.
C27_RefreshCopiesClaims ==
  [][resp'.op = "refresh" /\ resp'.r.status = 200
     => /\ resp'.r.cookies # {}
        /\ \A a \in resp'.r.cookies :
             /\ a.kind = "access"
             /\ Claims(a) = Claims(resp'.req.token)
             /\ a \in issued']_vars

\* after the admin made the user an admin and changed the email, a refresh
\* token of before the change was exchanged for an access token with the
\* old role and email
C27_Witness ==
  /\ resp.op = "refresh"
  /\ resp.r.status = 200
  /\ \E a \in resp.r.cookies :
       /\ a.userId \in DOMAIN users
       /\ a.role = "user" /\ users[a.userId].role = "admin"
       /\ a.email = "b@x.io" /\ users[a.userId].email = "c@x.io"

\* C28: logout changes nothing but the refresh-token row of its token, and
\* in every state an access token passes authenticateToken exactly until
\* its own expiry, whether or not the session it came from was logged out.
C28_LogoutKeepsAccessTokens ==
  [][/\ resp'.op = "logout"
        => /\ issued' = issued
           /\ users' = users /\ orders' = orders /\ order_items' = order_items
           /\ dishes' = dishes /\ files' = files
           /\ refresh_tokens' = {r \in refresh_tokens : r.token # resp'.req.token}
     /\ \A a \in issued' :
          a.kind = "access" => (authenticateToken(a)' = NoResp <=> clock' < a.iat + AccessTtl)]_vars

\* at second 2 the admin's session of second 1 is logged out and has no
\* row, and a request with its access token was served
C28_Witness ==
  /\ clock = 2
  /\ resp.op = "getAllUsers"
  /\ resp.r.status = 200
  /\ Revoked(Sign("refresh", 1, "a@x.io", "admin", 1)) \in past
  /\ refresh_tokens = {}
  /\ \A t \in issued : t.iat < 2

====
